---- MODULE Spec2Model ----
(***************************************************************************)
(* PixivPixie.  First the task queue of pixiv_pixie/utils/task_queue.py.   *)
(*                                                                         *)
(* TaskQueue owns a list of worker threads, a halt flag, a lock guarding   *)
(* both, and an unbounded FIFO queue of tasks.  Every enqueue creates one  *)
(* TaskResult, whose blocking get() waits on a condition variable that the *)
(* worker notifies from _set_result / _set_exception.                      *)
(*                                                                         *)
(* Threads of the model:                                                   *)
(*   - worker threads (wpc is the line the worker is about to execute),    *)
(*   - the thread inside halt_workers (worker_lock, join_i),               *)
(*   - threads calling TaskResult.get (gpc).                               *)
(* spawn_workers and enqueue never block once the lock is theirs, so each  *)
(* is one step.  A "with self._cv:" section that does not wait is one      *)
(* step: nothing inside it blocks, so no other thread can observe it half  *)
(* done.  A task function returns a value or raises an Exception (what     *)
(* line 115 catches) and always comes back.                                *)
(*                                                                         *)
(* Further down: PixivPixie.download of pixiv_pixie/pixie.py (one thread   *)
(* downloading the pages of one record, with the retry loop of             *)
(* _download_one_url and the files it leaves on disk), and                 *)
(* PixivPixie.check_auth (threads that call operations needing a session   *)
(* while the token ages).  Then the two drivers: Downloader of             *)
(* pixiv_pixie/downloader.py (add_fetch_task, the _fetch and download      *)
(* tasks its workers run, and a thread in status() / all_done()) over the  *)
(* QuerySet pipeline of pixiv_pixie/utils/query_set.py, and one call of    *)
(* PixieQueen.fetch_and_download of pixiv_pixie/queen.py with its retry    *)
(* loop, also as the command line of pixiv_pixie/cli.py calls it.  Last    *)
(* the predicates and Queries of pixiv_pixie/utils/fp.py, and a Query of   *)
(* one stage iterated element by element.                                  *)
(* The parts have their own variables and specifications; each leaves the  *)
(* others' variables alone.                                                *)
(***************************************************************************)
EXTENDS Integers, Sequences, FiniteSets, TLC

\* ---------------------------------------------------------------- bounds
MaxTasks == 2
MaxWorkers == 2
\* the specifications with threads in get() enqueue and spawn fewer
MaxGetTasks == 1
MaxGetWorkers == 1
\* threads calling get(): one alone, or several on one TaskResult
MaxGetThreads == 1
MaxWaiters == 2
\* PixivPixie.download: pages of a manga, the largest finite max_tries,
\* failed attempts per download call, files on disk before the first
\* call, download calls
MaxPages == 2
MaxTries == 2
MaxFails == 3
MaxOldFiles == 1
MaxDownloads == 2
\* bytes of the largest file a transfer carries
MaxBytes == 2
\* PixivPixie.check_auth: threads calling operations that need a session,
\* and the last tick of the clock
MaxAuthThreads == 2
MaxTime == 3
\* the drivers: records a fetch delivers, the largest popularity count,
\* add_fetch_task calls, TaskResults of a Downloader
MaxRecords == 2
MaxBookmarks == 1
MaxFetchTasks == 2
MaxDriverTasks == 3
\* the attempts of a fetch that retries for ever
MaxFetchTries == 2
\* the filter engine: Q objects a caller builds, items of a Query's source
MaxPredicates == 3
MaxItems == 2
\* cli: records of what the fetch function of the task delivers
MaxTimeline == 1
\* iterating a Query: elements the consumer takes, elements taken from
\* the source
MaxTake == 2
MaxPulls == 5

\* ------------------------------------------------------------ value sets
None == "None"
TaskIds == 1..MaxTasks
WorkerIds == 1..MaxWorkers
WaiterIds == 1..(IF MaxWaiters > MaxGetThreads THEN MaxWaiters ELSE MaxGetThreads)

\* return values and exceptions a task function can produce
Results == {"r1", "r2"}
Exceptions == {"e1", "e2"}

\* class TaskStatus
PENDING == "PENDING"
STARTED == "STARTED"
FAILURE == "FAILURE"
SUCCESS == "SUCCESS"
TaskStatus == {PENDING, STARTED, FAILURE, SUCCESS}

VARIABLES
    \* TaskQueue
    worker_lock,      \* TRUE while a thread is inside halt_workers
    join_i,           \* index in workers of the thread halt_workers joins next
    workers,          \* self._workers: the list of worker threads
    halt_flag,        \* self._halt_flag
    queue,            \* self._queue: FIFO of enqueued, not yet taken tasks
    unfinished_tasks, \* Queue.unfinished_tasks (put increments, task_done decrements)
    ntasks,           \* number of enqueue calls made so far
    \* worker threads
    wpc,              \* position of each worker thread
    wtask,            \* the task a worker took from the queue
    wout,             \* what func(*args, **kwargs) did in this worker
    \* TaskResult of each task
    status,           \* _status
    result,           \* _result
    exception,        \* _exception
    last_finish,      \* _last_finish (None or set)
    cv_waiters,       \* waiters of _cv, first to be notified first
    \* threads inside TaskResult.get
    gpc, gtask, gtimeout, gpropagate, gval,
    \* history
    calls,            \* per task, what each invocation of its function did
    generations,      \* spawn_workers calls that started workers: 0, 1,
                      \* or 2 for two and more
    last_call         \* the last spawn_workers / halt_workers call that
                      \* came back, and what it raised

queue_vars == <<worker_lock, join_i, workers, halt_flag, queue,
                unfinished_tasks, ntasks>>
worker_vars == <<wpc, wtask, wout>>
result_vars == <<status, result, exception, last_finish, cv_waiters>>
get_vars == <<gpc, gtask, gtimeout, gpropagate, gval>>
hist_vars == <<calls, generations, last_call>>
tq_vars == <<queue_vars, worker_vars, result_vars, get_vars, hist_vars>>

\* ------------------------------------------- PixivPixie.download: state
\* (pixiv_pixie/pixie.py)  One thread calls download(); dpc is the line it
\* is about to execute.
VARIABLES
    illust,           \* the record: its type and image_urls
    fs,               \* the file system: what each existing path holds
    dpc,              \* "idle", "one_url" (l.536), "try" (l.553),
                      \* "except" (l.571), "returned", "raised"
    convert_ugoira, replace, check_exists, max_tries, fake_download,
                      \* arguments of the running download call
    download_target,  \* l.656: the (url, path) of every page
    target_i,         \* position of the loop of l.589 in download_target
    tries,            \* l.551
    frame_path,       \* l.549, l.564
    download_result,  \* l.587: the list _download_multiple_urls builds
    e_caught,         \* l.570: e, the exception the last attempt raised
    raised,           \* what download() raised, None if nothing
    \* history
    ndownloads,       \* download calls made so far
    attempts,         \* per page, calls of _download_illust_to_file in
                      \* this download call
    fails,            \* failed attempts in this download call
    fs_before,        \* fs when this download call started
    previous          \* arguments and outcome of the download call before

download_args == <<convert_ugoira, replace, check_exists, max_tries,
                   fake_download>>
download_vars == <<illust, fs, dpc, download_args, download_target, target_i,
                   tries, frame_path, download_result, e_caught, raised,
                   ndownloads, attempts, fails, fs_before, previous>>

\* ----------------------------------------- PixivPixie.check_auth: state
VARIABLES
    now,              \* datetime.datetime.now(), in units of 900 seconds
    auto_re_login,    \* self.auto_re_login
    has_auth,         \* self._has_auth
    last_login,       \* self._last_login: <<>> for None, else <<time>>
    username, password,   \* self._username, self._password ("" for None)
    check_auth_lock,  \* the thread holding self._check_auth_lock, or 0
    apc,              \* per thread: "idle", "lock" (l.137), "check"
                      \* (l.138), "login" (l.110), "func" (l.37), or how
                      \* the call ended: "done", "NoAuth", "LoginFailed"
    aop,              \* per thread: the operation it called
    seen_login,       \* per thread: self.last_login as read at l.140
    \* history
    net_called,       \* per thread: the operation's own network call was
                      \* made in this call
    relogins          \* for each re-login that succeeded, the last_login
                      \* its thread had found expired

auth_vars == <<now, auto_re_login, has_auth, last_login, username, password,
               check_auth_lock, apc, aop, seen_login, net_called, relogins>>

\* ------------------------------------------------------ Downloader: state
\* (pixiv_pixie/downloader.py)  The Downloader's TaskQueue is the queue
\* above.  Worker threads run the tasks; inside a _fetch task a worker
\* enqueues one download task for each record the pipeline yields.
VARIABLES
    downloader,       \* the object: _records (each record's name, result
                      \* and children) and _lock (TRUE while a thread is
                      \* inside status(): the other sections of the lock
                      \* are one step each)
    task_call,        \* per TaskResult, the func and kwargs given to
                      \* TaskQueue.enqueue
    fetch_frame,      \* per worker, the locals of the _fetch call it runs
    observer          \* the thread calling all_done(): where it is in
                      \* status() (pc, and i, j: the record and the child
                      \* it reads next), seen: the status it has just read,
                      \* snapshot: the array status() is building,
                      \* returned: what all_done() returned last; and as
                      \* history at_acquire: every status was final when
                      \* status() took the lock, previous: the names and
                      \* the children's ids of the array returned last

driver_vars == <<downloader, task_call, fetch_frame, observer>>

\* (pixiv_pixie/queen.py)  One call of PixieQueen.fetch_and_download, run
\* by a thread of the executor.
VARIABLES
    queen             \* the frame of the call: pc; the arguments fetch
                      \* (the FunctionCall), max_tries, spec (order_by,
                      \* limit_before, filter_q, exclude_q, limit_after)
                      \* and info (download_kwargs' addition_naming_info);
                      \* the locals tries, qs, order and futures; the
                      \* kwargs of each self.download(**kwargs) submitted;
                      \* the exception raised, with its fetch_call; and as
                      \* history output: the records of the QuerySet of
                      \* the attempt that is running

\* (pixiv_pixie/utils/fp.py)  The Q objects a caller has built and the
\* inputs it has applied them to.
VARIABLES
    fp                \* heap: the Q objects built so far, each with what
                      \* its function closes over; error: the exception of
                      \* the last get_lookup; source: the list a Query was
                      \* made over; queries: the Query objects derived
                      \* from it, each the Q objects of its filter stages

ext_vars == <<driver_vars, queen, fp>>
pixie_vars == <<download_vars, auth_vars, ext_vars>>
vars == <<tq_vars, pixie_vars>>

\* ------------------------------------ PixivPixie.download: values, files
\* class IllustType
ILLUST == "illust"
MANGA == "manga"
UGOIRA == "ugoira"

\* A url is <<root, ext>>, what os.path.splitext(os.path.basename(url))
\* gives: pages of an image record are 0.jpg, 1.jpg, ...; an ugoira has
\* one url, a zip.  A path is <<folder, root, ext>>.
Roots == 0..(MaxPages - 1)
Exts == {".jpg", ".zip", ".gif", ".txt"}
directory == "dir"
Folders == {directory, "have"}
Paths == Folders \X Roots \X Exts
NoPath == <<None, 0, None>>

Illusts ==
    {[type |-> ILLUST, image_urls |-> << <<0, ".jpg">> >>],
     [type |-> UGOIRA, image_urls |-> << <<0, ".zip">> >>]}
    \cup {[type |-> MANGA, image_urls |-> [i \in 1..n |-> <<i - 1, ".jpg">>]] :
              n \in 2..MaxPages}

\* check_exists after l.651-654: a list of folders
CheckLists == {{}, {"have"}}

\* max_tries: None, or an integer (0 included)
NoLimit == <<None, 0>>
MaxTriesValues == {NoLimit} \cup {<<"int", n>> : n \in 0..MaxTries}

\* fs maps each existing path to what it holds: whole or partial data
\* written by the k-th download call (0: it was there before the first)
NoFiles == [p \in {} |-> <<"full", 0>>]
exists(path) == path \in DOMAIN fs
\* open(path, 'w..') and the writes that follow
write(f, path, data) ==
    [p \in DOMAIN f \cup {path} |-> IF p = path THEN data ELSE f[p]]

\* what an attempt can raise, with the attempt that raised it
NoException == <<None, 0>>

\* l.460-481 with name=None: the file keeps the url's name, but a zip that
\* will be converted is named .gif
_get_file_path(url, convert) ==
    LET root == url[1]
        ext == IF convert /\ url[2] = ".zip" THEN ".gif" ELSE url[2]
    IN  <<directory, root, ext>>

\* l.564: os.path.splitext(path)[0] + '.txt'
frame_path_of(path) == <<path[1], path[2], ".txt">>

\* l.486-493: nothing to do for None; a missing file is not an error
_try_remove_file(f, path) ==
    IF path = NoPath THEN f ELSE [p \in DOMAIN f \ {path} |-> f[p]]

\* l.496-503: the path's base name exists in some folder of the checklist
_check_exist(path, checklist) ==
    \E folder \in checklist : exists(<<folder, path[2], path[3]>>)

\* files a record's download can meet on disk before the first call
OldFileCandidates(il) ==
    {p \in Paths :
        \E i \in 1..Len(il.image_urls) :
            LET url == il.image_urls[i]
            IN  /\ p[2] = url[1]
                /\ \/ p[3] = url[2]
                   \/ url[2] = ".zip" /\ p[3] = ".gif"
                   \/ url[2] = ".zip" /\ p[3] = ".txt" /\ p[1] = directory}

\* the state of everything but the record and the disk before any call
DownloadIdle ==
    /\ dpc = "idle"
    /\ convert_ugoira = FALSE
    /\ replace = FALSE
    /\ check_exists = {}
    /\ max_tries = NoLimit
    /\ fake_download = FALSE
    /\ download_target = <<>>
    /\ target_i = 0
    /\ tries = 0
    /\ frame_path = NoPath
    /\ download_result = <<>>
    /\ e_caught = NoException
    /\ raised = <<>>
    /\ ndownloads = 0
    /\ attempts = <<>>
    /\ fails = 0
    /\ fs_before = fs
    /\ previous = <<>>

\* ------------------------------------------ PixivPixie.check_auth: values
\* l.26: TOKEN_LIFETIME = timedelta(seconds=1800), two units of 900 s
TOKEN_LIFETIME == 2
AuthThreads == 1..MaxAuthThreads
\* the operations decorated with _need_auth: illust (l.147), the fetch
\* calls (l.221-406), download (l.601)
Operations == {"illust", "fetch", "download"}
\* what login() can be given: nothing, or an account name / a password
Usernames == {"", "user"}
Passwords == {"", "secret"}

\* l.140: datetime.datetime.now() - self.last_login >= TOKEN_LIFETIME
token_expired == now - last_login[1] >= TOKEN_LIFETIME

AuthInit ==
    /\ now = 0
    /\ auto_re_login \in BOOLEAN
    /\ has_auth = FALSE
    /\ last_login = <<>>
    /\ username = ""
    /\ password = ""
    /\ check_auth_lock = 0
    /\ apc = [t \in AuthThreads |-> "idle"]
    /\ aop = [t \in AuthThreads |-> "illust"]
    /\ seen_login = [t \in AuthThreads |-> <<>>]
    /\ net_called = [t \in AuthThreads |-> FALSE]
    /\ relogins = <<>>

\* a session nobody uses, for the specifications without check_auth
AuthIdle == AuthInit /\ auto_re_login = TRUE

\* --------------------------------------------- QuerySet, records, tasks
\* (pixiv_pixie/utils/query_set.py)  A record as the pipeline sees it: the
\* attributes of a PixivIllust that the lookups and the sort keys read.
Records ==
    [illust_id : 1..MaxRecords, type : {ILLUST, MANGA},
     total_bookmarks : 0..MaxBookmarks]

\* Optional values: <<>> is None, <<v>> is v
Some(v) == <<v>>

\* An iterator: the items it yields, then StopIteration (raised = None) or
\* the exception its producer raises after them.
Stream(items, exc) == [items |-> items, raised |-> exc]

\* what a fetch generator delivers: records with the ids 1..n, and then
\* the end or an APIError of the page request that follows
Sources ==
    {Stream(items, exc) :
        items \in UNION {{f \in [1..n -> Records] :
                              \A i \in 1..n : f[i].illust_id = i} :
                         n \in 0..MaxRecords},
        exc \in {None, "APIError"}}

\* l.7-169: class OperatorCollection
OperatorCollection == {"exact", "nexact", "contains", "lt", "gte"}
default_operator == "exact"

operator(name, lhs, rhs) ==
    CASE name = "exact" -> lhs = rhs
      [] name = "nexact" -> lhs # rhs
      [] name = "contains" -> rhs \in lhs
      [] name = "lt" -> lhs < rhs
      [] name = "gte" -> lhs >= rhs

\* l.172-180 for a record: getattr along the list; a name the record does
\* not have raises AttributeError, and so does any name looked up on the
\* number or string a first name gave
_get_attribute(obj, attribute_list) ==
    IF attribute_list = <<>>
    THEN [raised |-> FALSE, value |-> obj]
    ELSE IF Len(attribute_list) > 1 \/ attribute_list[1] \notin DOMAIN obj
    THEN [raised |-> TRUE, value |-> 0]
    ELSE [raised |-> FALSE, value |-> obj[attribute_list[1]]]

\* l.183-205: the last name of the query string is the operator if the
\* collection has one of that name, else it is one more attribute and the
\* operator is the default.  query_string is the list split() gives.
_attribute_lookup(obj, query_string, query_value) ==
    LET last == query_string[Len(query_string)]
        is_operator == last \in OperatorCollection
        operator_name == IF is_operator THEN last ELSE default_operator
        attribute_list == IF is_operator
                          THEN SubSeq(query_string, 1, Len(query_string) - 1)
                          ELSE query_string
        got == _get_attribute(obj, attribute_list)
    IN  IF got.raised
        THEN [raised |-> TRUE, value |-> FALSE]
        ELSE [raised |-> FALSE,
              value |-> operator(operator_name, got.value, query_value)]

\* l.226-236: a Q object made of one lookup, Q(query_string=query_value),
\* or of none, Q()
Q(query_string, query_value) ==
    [kind |-> "Q", query_string |-> query_string,
     query_value |-> query_value]
QAll == Q(<<>>, 0)

\* l.238-245, l.248-254: ~q
QNot(q) == [kind |-> "QNot", q |-> q]
\* l.257-265: lhs & rhs
QAnd(lhs, rhs) == [kind |-> "QAnd", lhs |-> lhs, rhs |-> rhs]
\* l.268-276: lhs | rhs
QOr(lhs, rhs) == [kind |-> "QOr", lhs |-> lhs, rhs |-> rhs]

\* validate(): attribute_lookup over the query of a Q, true for an empty
\* one (l.208-223); 'not', 'and' and 'or' of the parts for the others,
\* the right part looked at only when the left one does not decide
RECURSIVE validate(_, _)
validate(q, obj) ==
    CASE q.kind = "Q" ->
             IF q.query_string = <<>>
             THEN [raised |-> FALSE, value |-> TRUE]
             ELSE _attribute_lookup(obj, q.query_string, q.query_value)
      [] q.kind = "QNot" ->
             LET v == validate(q.q, obj)
             IN  [raised |-> v.raised, value |-> ~v.raised /\ ~v.value]
      [] q.kind = "QAnd" ->
             LET l == validate(q.lhs, obj)
             IN  IF l.raised \/ ~l.value THEN l ELSE validate(q.rhs, obj)
      [] q.kind = "QOr" ->
             LET l == validate(q.lhs, obj)
             IN  IF l.raised \/ l.value THEN l ELSE validate(q.rhs, obj)

\* the items of s up to the first on which the test raises
BeforeRaise(s, q) ==
    LET bad == {i \in 1..Len(s.items) : validate(q, s.items[i]).raised}
    IN  IF bad = {} THEN s.items
        ELSE SubSeq(s.items, 1,
                    (CHOOSE i \in bad : \A j \in bad : i <= j) - 1)

\* l.291-312: QuerySet.filter(q_object): filter() is lazy, the items come
\* out one by one until the source ends or raises, or the test raises
filter(s, q) ==
    LET ok(item) == validate(q, item).value
        tested == BeforeRaise(s, q)
    IN  Stream(SelectSeq(tested, ok),
               IF Len(tested) < Len(s.items) THEN "AttributeError"
               ELSE s.raised)

\* l.318-328: QuerySet.exclude(q_object)
exclude(s, q) ==
    LET ok(item) == ~validate(q, item).value
        tested == BeforeRaise(s, q)
    IN  Stream(SelectSeq(tested, ok),
               IF Len(tested) < Len(s.items) THEN "AttributeError"
               ELSE s.raised)

\* a sort that does not look at reverse
sort_ascending(data, field, reverse) ==
    LET key(i) == data[i][field]
        before(j, i) == key(j) < key(i) \/ (key(j) = key(i) /\ j < i)
        pos(i) == 1 + Cardinality({j \in 1..Len(data) : before(j, i)})
    IN  [k \in 1..Len(data) |->
             data[CHOOSE i \in 1..Len(data) : pos(i) = k]]

\* list.sort(key=..., reverse=...): stable, and stable when reversed too
sort(data, field, reverse) ==
    LET key(i) == data[i][field]
        before(j, i) == \/ IF reverse THEN key(j) > key(i) ELSE key(j) < key(i)
                        \/ key(j) = key(i) /\ j < i
        pos(i) == 1 + Cardinality({j \in 1..Len(data) : before(j, i)})
    IN  [k \in 1..Len(data) |->
             data[CHOOSE i \in 1..Len(data) : pos(i) = k]]

\* l.330-359: QuerySet.order_by(*fields) reads the whole source first
\* (list(self) at l.346), then sorts by the last field first.  A field is
\* <<name, reverse>>, reverse for a leading '-'.
RECURSIVE sort_fields(_, _)
sort_fields(data, fields) ==
    IF fields = <<>> THEN data
    ELSE sort(sort_fields(data, Tail(fields)), Head(fields)[1],
              Head(fields)[2])

order_by(s, fields) ==
    IF fields = <<>> THEN s
    ELSE IF s.raised # None THEN Stream(<<>>, s.raised)
    ELSE IF s.items # <<>>
            /\ \E i \in 1..Len(fields) : fields[i][1] \notin DOMAIN s.items[1]
    THEN Stream(<<>>, "AttributeError")
    ELSE Stream(sort_fields(s.items, fields), None)

\* l.365-367: itertools.islice(self, max_num) stops after max_num items and
\* never asks the source for one more
limit(s, max_num) ==
    IF Len(s.items) >= max_num
    THEN Stream(SubSeq(s.items, 1, max_num), None)
    ELSE s


\* ----------------------------------------------- Downloader: values
\* the filter arguments of add_fetch_task / fetch_and_download; order_by
\* is the tuple of fields (empty for None), the others are optional
NoSpec ==
    [order_by |-> <<>>, limit_before |-> <<>>, filter_q |-> <<>>,
     exclude_q |-> <<>>, limit_after |-> <<>>]

\* downloader.py l.128-142 (queen.py l.129-141 is the same code): the
\* QuerySet the loop over the records iterates
pipeline(source, spec) ==
    LET ordered == order_by(source, spec.order_by)
        limited == IF spec.limit_before # <<>>
                   THEN limit(ordered, spec.limit_before[1]) ELSE ordered
        filtered == IF spec.filter_q # <<>>
                    THEN filter(limited, spec.filter_q[1])
                    ELSE IF spec.exclude_q # <<>>
                    THEN exclude(limited, spec.exclude_q[1])
                    ELSE limited
    IN  IF spec.limit_after # <<>>
        THEN limit(filtered, spec.limit_after[1]) ELSE filtered

\* download_kwargs['addition_naming_info']: None (or absent), or a dict
NamingInfos ==
    {<<>>, Some(<<>>), Some("order" :> 7), Some("rank" :> 3)}

\* l.145-150 (queen.py l.144-149): the naming info the download task gets
inject_order(addition_naming_info, order) ==
    IF addition_naming_info = <<>>
    THEN Some("order" :> order)
    ELSE addition_naming_info

\* what TaskQueue.enqueue is given: func with its args and kwargs
FetchCall(source, record, spec, info) ==
    [func |-> "_fetch", source |-> source, record |-> record, spec |-> spec,
     illust |-> <<>>, addition_naming_info |-> info]
DownloadCall(il, info) ==
    [func |-> "download_illust", source |-> Stream(<<>>, None), record |-> 0,
     spec |-> NoSpec, illust |-> Some(il), addition_naming_info |-> info]

\* the locals of _fetch before the call
NoFrame ==
    [pc |-> "idle", qs |-> Stream(<<>>, None), order |-> 0, illust |-> <<>>,
     result |-> 0]

\* a Downloader nobody uses
DriverIdle ==
    /\ downloader = [_records |-> <<>>, _lock |-> FALSE]
    /\ task_call = <<>>
    /\ fetch_frame = [w \in WorkerIds |-> NoFrame]
    /\ observer = [pc |-> "idle", i |-> 0, j |-> 0, seen |-> PENDING,
                   snapshot |-> <<>>, returned |-> <<>>,
                   at_acquire |-> FALSE, previous |-> <<>>]

\* no call of fetch_and_download
QueenIdle ==
    queen = [pc |-> "idle", fetch |-> [missing_argument |-> FALSE],
             max_tries |-> Some(1), spec |-> NoSpec, info |-> <<>>,
             tries |-> 0, qs |-> Stream(<<>>, None), order |-> 0,
             futures |-> <<>>, submitted |-> <<>>, exception |-> <<>>,
             fetch_call |-> <<>>, output |-> <<>>, args |-> <<>>]

\* no Query is being iterated: the stage the Query applies to its source,
\* the source (its items once, or over and over for one that never ends),
\* how many elements the consumer wants, how many were taken from the
\* source and whether it has raised StopIteration, what sorted() or
\* tuple() holds, the set of unique(), the next of islice, and the
\* elements given to the consumer, each with the number of elements taken
\* from the source when it was given
NoIteration ==
    [pc |-> "idle", stage |-> [op |-> "none"],
     source |-> [items |-> <<>>, unbounded |-> FALSE], k |-> 0,
     pulled |-> 0, exhausted |-> FALSE, buffer |-> <<>>,
     materialized |-> FALSE, seen |-> {}, next |-> 0, out |-> <<>>,
     pulled_at |-> <<>>]

\* no Q object, no Query
FpIdle == fp = [heap |-> <<>>, error |-> <<>>, source |-> <<>>,
                queries |-> <<>>, iteration |-> NoIteration]

ExtIdle == DriverIdle /\ QueenIdle /\ FpIdle

\* a single-page record and an empty disk, for the specifications that
\* make no download call
PixieInit ==
    /\ illust = [type |-> ILLUST, image_urls |-> << <<0, ".jpg">> >>]
    /\ fs = NoFiles
    /\ DownloadIdle
    /\ AuthIdle
    /\ ExtIdle

\* ------------------------------------------------------------- helpers
Range(s) == {s[i] : i \in 1..Len(s)}

RemoveFirst(s, x) ==
    IF \E i \in 1..Len(s) : s[i] = x
    THEN LET k == CHOOSE i \in 1..Len(s) :
                     s[i] = x /\ \A j \in 1..(i - 1) : s[j] # x
         IN  SubSeq(s, 1, k - 1) \o SubSeq(s, k + 1, Len(s))
    ELSE s

\* TaskResult.ready(): bool(self.last_finish)
ready(t) == last_finish[t] # None

\* TaskResult.successful(): self.exception is None
successful(t) == exception[t] = None

\* TaskResult.failed(): self.exception is not None
failed(t) == exception[t] # None

\* ---------------------------------------------------------------- Init
\* TaskQueue.__init__: no workers, flag down, empty queue.  TaskResult
\* objects do not exist yet; their fields hold the values __init__ gives.
TaskQueueInit ==
    /\ worker_lock = FALSE
    /\ join_i = 0
    /\ workers = <<>>
    /\ halt_flag = FALSE
    /\ queue = <<>>
    /\ unfinished_tasks = 0
    /\ ntasks = 0
    /\ wpc = [w \in WorkerIds |-> "none"]
    /\ wtask = [w \in WorkerIds |-> 0]
    /\ wout = [w \in WorkerIds |-> <<None, None>>]
    /\ status = [t \in TaskIds |-> PENDING]
    /\ result = [t \in TaskIds |-> None]
    /\ exception = [t \in TaskIds |-> None]
    /\ last_finish = [t \in TaskIds |-> None]
    /\ cv_waiters = [t \in TaskIds |-> <<>>]
    /\ gpc = [g \in WaiterIds |-> "idle"]
    /\ gtask = [g \in WaiterIds |-> 0]
    /\ gtimeout = [g \in WaiterIds |-> FALSE]
    /\ gpropagate = [g \in WaiterIds |-> FALSE]
    /\ gval = [g \in WaiterIds |-> None]
    /\ calls = [t \in TaskIds |-> <<>>]
    /\ generations = 0
    /\ last_call = [op |-> "none", raised |-> None]

Init == TaskQueueInit /\ PixieInit

\* ------------------------------------------------------------ TaskQueue
\* spawn_workers leaving the halt flag as it finds it
spawn_workers_keep_flag(number) ==
    /\ ~worker_lock
    /\ IF workers # <<>>
       THEN /\ last_call' = [op |-> "spawn_workers", raised |-> "RuntimeError"]
            /\ UNCHANGED <<queue_vars, worker_vars, result_vars, get_vars,
                           calls, generations>>
       ELSE /\ workers' = [i \in 1..number |-> i]
            /\ wpc' = [w \in WorkerIds |-> IF w <= number THEN "loop" ELSE wpc[w]]
            /\ generations' = IF number > 0 /\ generations < 2
                               THEN generations + 1 ELSE generations
            /\ last_call' = [op |-> "spawn_workers", raised |-> None]
            /\ UNCHANGED <<worker_lock, join_i, halt_flag, queue,
                           unfinished_tasks, ntasks, wtask, wout, result_vars,
                           get_vars, calls>>
    /\ UNCHANGED pixie_vars

\* spawn_workers(number): under the lock; raises RuntimeError when the
\* list of workers is not empty, else lowers the flag and starts the threads.
spawn_workers(number) ==
    /\ ~worker_lock
    /\ IF workers # <<>>
       THEN /\ last_call' = [op |-> "spawn_workers", raised |-> "RuntimeError"]
            /\ UNCHANGED <<queue_vars, worker_vars, result_vars, get_vars,
                           calls, generations>>
       ELSE /\ halt_flag' = FALSE
            /\ workers' = [i \in 1..number |-> i]
            /\ wpc' = [w \in WorkerIds |-> IF w <= number THEN "loop" ELSE wpc[w]]
            /\ generations' = IF number > 0 /\ generations < 2
                               THEN generations + 1 ELSE generations
            /\ last_call' = [op |-> "spawn_workers", raised |-> None]
            /\ UNCHANGED <<worker_lock, join_i, queue, unfinished_tasks, ntasks,
                           wtask, wout, result_vars, get_vars, calls>>
    /\ UNCHANGED pixie_vars

\* halt_workers, lines 71-72: take the lock and raise the flag.
halt_workers_begin ==
    /\ ~worker_lock
    /\ worker_lock' = TRUE
    /\ halt_flag' = TRUE
    /\ join_i' = 1
    /\ UNCHANGED <<workers, queue, unfinished_tasks, ntasks, worker_vars,
                   result_vars, get_vars, hist_vars>>
    /\ UNCHANGED pixie_vars

\* halt_workers_join not waiting for the thread to end
halt_workers_join_nowait ==
    /\ worker_lock
    /\ join_i <= Len(workers)
    /\ join_i' = join_i + 1
    /\ UNCHANGED <<worker_lock, workers, halt_flag, queue, unfinished_tasks,
                   ntasks, worker_vars, result_vars, get_vars, hist_vars>>
    /\ UNCHANGED pixie_vars

\* halt_workers, lines 73-74: worker.join() returns once that thread ended.
halt_workers_join ==
    /\ worker_lock
    /\ join_i <= Len(workers)
    /\ wpc[workers[join_i]] = "exited"
    /\ join_i' = join_i + 1
    /\ UNCHANGED <<worker_lock, workers, halt_flag, queue, unfinished_tasks,
                   ntasks, worker_vars, result_vars, get_vars, hist_vars>>
    /\ UNCHANGED pixie_vars

\* halt_workers_end leaving the joined threads in the list
halt_workers_end_no_clear ==
    /\ worker_lock
    /\ join_i > Len(workers)
    /\ worker_lock' = FALSE
    /\ join_i' = 0
    /\ last_call' = [op |-> "halt_workers", raised |-> None]
    /\ UNCHANGED <<workers, halt_flag, queue, unfinished_tasks, ntasks,
                   worker_vars, result_vars, get_vars, calls, generations>>
    /\ UNCHANGED pixie_vars

\* halt_workers, line 75 and the end of the with block: clear the list,
\* release the lock, return.
halt_workers_end ==
    /\ worker_lock
    /\ join_i > Len(workers)
    /\ workers' = <<>>
    /\ wpc' = [w \in WorkerIds |-> IF w \in Range(workers) THEN "none" ELSE wpc[w]]
    /\ worker_lock' = FALSE
    /\ join_i' = 0
    /\ last_call' = [op |-> "halt_workers", raised |-> None]
    /\ UNCHANGED <<halt_flag, queue, unfinished_tasks, ntasks, wtask, wout,
                   result_vars, get_vars, calls, generations>>
    /\ UNCHANGED pixie_vars

\* enqueue: a fresh TaskResult (PENDING) is put at the tail of the queue.
enqueue ==
    /\ ntasks < MaxTasks
    /\ ntasks' = ntasks + 1
    /\ queue' = Append(queue, ntasks + 1)
    /\ unfinished_tasks' = unfinished_tasks + 1
    /\ UNCHANGED <<worker_lock, join_i, workers, halt_flag, worker_vars,
                   result_vars, get_vars, hist_vars>>
    /\ UNCHANGED pixie_vars

\* --------------------------------------------------------------- _worker
\* line 104: while not self._halt_flag
worker_loop(w) ==
    /\ wpc[w] = "loop"
    /\ wpc' = [wpc EXCEPT ![w] = IF halt_flag THEN "exited" ELSE "get"]
    /\ UNCHANGED <<queue_vars, wtask, wout, result_vars, get_vars, hist_vars>>
    /\ UNCHANGED pixie_vars

\* worker_get reading the head of the queue without removing it
worker_get_peek(w) ==
    /\ wpc[w] = "get"
    /\ IF queue = <<>>
       THEN /\ wpc' = [wpc EXCEPT ![w] = "loop"]
            /\ UNCHANGED wtask
       ELSE /\ wtask' = [wtask EXCEPT ![w] = Head(queue)]
            /\ wpc' = [wpc EXCEPT ![w] = "start"]
    /\ UNCHANGED <<queue_vars, wout, result_vars, get_vars, hist_vars>>
    /\ UNCHANGED pixie_vars

\* taking the newest task instead of the oldest
worker_get_lifo(w) ==
    /\ wpc[w] = "get"
    /\ IF queue = <<>>
       THEN /\ wpc' = [wpc EXCEPT ![w] = "loop"]
            /\ UNCHANGED <<queue, wtask>>
       ELSE /\ wtask' = [wtask EXCEPT ![w] = queue[Len(queue)]]
            /\ queue' = SubSeq(queue, 1, Len(queue) - 1)
            /\ wpc' = [wpc EXCEPT ![w] = "start"]
    /\ UNCHANGED <<worker_lock, join_i, workers, halt_flag, unfinished_tasks,
                   ntasks, wout, result_vars, get_vars, hist_vars>>
    /\ UNCHANGED pixie_vars

\* lines 105-109: self._queue.get(timeout=...); Empty sends the worker back
\* to the loop test.
worker_get(w) ==
    /\ wpc[w] = "get"
    /\ IF queue = <<>>
       THEN /\ wpc' = [wpc EXCEPT ![w] = "loop"]
            /\ UNCHANGED <<queue, wtask>>
       ELSE /\ wtask' = [wtask EXCEPT ![w] = Head(queue)]
            /\ queue' = Tail(queue)
            /\ wpc' = [wpc EXCEPT ![w] = "start"]
    /\ UNCHANGED <<worker_lock, join_i, workers, halt_flag, unfinished_tasks,
                   ntasks, wout, result_vars, get_vars, hist_vars>>
    /\ UNCHANGED pixie_vars

\* line 113: task_result._status = TaskStatus.STARTED
worker_start(w) ==
    /\ wpc[w] = "start"
    /\ status' = [status EXCEPT ![wtask[w]] = STARTED]
    /\ wpc' = [wpc EXCEPT ![w] = "call"]
    /\ UNCHANGED <<queue_vars, wtask, wout, result, exception, last_finish,
                   cv_waiters, get_vars, hist_vars>>
    /\ UNCHANGED pixie_vars

\* Condition.notify(): the first waiter of the condition is released and
\* leaves the list.  A waiter whose timeout has already expired but which
\* has not yet left the list takes the notification as well.
notify(t) ==
    /\ cv_waiters' = [cv_waiters EXCEPT ![t] = IF @ = <<>> THEN @ ELSE Tail(@)]
    /\ gpc' = IF cv_waiters[t] # <<>> /\ gpc[Head(cv_waiters[t])] = "waiting"
              THEN [gpc EXCEPT ![Head(cv_waiters[t])] = "notified"]
              ELSE gpc

\* TaskResult._set_result
_set_result(t, r) ==
    /\ result' = [result EXCEPT ![t] = r]
    /\ exception' = [exception EXCEPT ![t] = None]
    /\ last_finish' = [last_finish EXCEPT ![t] = "set"]
    /\ notify(t)

\* _set_exception storing the exception where the result belongs
_set_exception_as_result(t, e) ==
    /\ result' = [result EXCEPT ![t] = e]
    /\ exception' = [exception EXCEPT ![t] = None]
    /\ last_finish' = [last_finish EXCEPT ![t] = "set"]
    /\ notify(t)

\* TaskResult._set_exception
_set_exception(t, e) ==
    /\ result' = [result EXCEPT ![t] = None]
    /\ exception' = [exception EXCEPT ![t] = e]
    /\ last_finish' = [last_finish EXCEPT ![t] = "set"]
    /\ notify(t)

\* worker_call letting the exception of the task end the worker thread
worker_call_raise(w) ==
    /\ wpc[w] = "call"
    /\ \E o \in ({"ret"} \X Results) \cup ({"exc"} \X Exceptions) :
           /\ wout' = [wout EXCEPT ![w] = o]
           /\ calls' = [calls EXCEPT ![wtask[w]] = Append(@, o)]
           /\ IF o[1] = "exc"
              THEN /\ wpc' = [wpc EXCEPT ![w] = "exited"]
                   /\ UNCHANGED <<result, exception, last_finish, cv_waiters, gpc>>
              ELSE /\ _set_result(wtask[w], o[2])
                   /\ wpc' = [wpc EXCEPT ![w] = "status"]
    /\ UNCHANGED <<queue_vars, wtask, status, gtask, gtimeout, gpropagate,
                   gval, generations, last_call>>
    /\ UNCHANGED pixie_vars

\* lines 114-116 and 119: func(*args, **kwargs) runs to its end, returning a
\* value or raising an exception, and the worker stores what it did with
\* _set_result / _set_exception.  Between the end of func and the store the
\* worker touches nothing shared, so the two are one step.
worker_call(w) ==
    /\ wpc[w] = "call"
    /\ \E o \in ({"ret"} \X Results) \cup ({"exc"} \X Exceptions) :
           /\ wout' = [wout EXCEPT ![w] = o]
           /\ calls' = [calls EXCEPT ![wtask[w]] = Append(@, o)]
           /\ IF o[1] = "exc"
              THEN _set_exception(wtask[w], o[2])
              ELSE _set_result(wtask[w], o[2])
    /\ wpc' = [wpc EXCEPT ![w] = "status"]
    /\ UNCHANGED <<queue_vars, wtask, status, gtask, gtimeout, gpropagate,
                   gval, generations, last_call>>
    /\ UNCHANGED pixie_vars

\* worker_status putting a failed task back to PENDING
worker_status_reset(w) ==
    /\ wpc[w] = "status"
    /\ status' = [status EXCEPT ![wtask[w]] =
                      IF wout[w][1] = "exc" THEN PENDING ELSE SUCCESS]
    /\ unfinished_tasks' = unfinished_tasks - 1
    /\ wtask' = [wtask EXCEPT ![w] = 0]
    /\ wout' = [wout EXCEPT ![w] = <<None, None>>]
    /\ wpc' = [wpc EXCEPT ![w] = "loop"]
    /\ UNCHANGED <<worker_lock, join_i, workers, halt_flag, queue, ntasks,
                   result, exception, last_finish, cv_waiters, get_vars,
                   hist_vars>>
    /\ UNCHANGED pixie_vars

\* lines 117 / 120 and 125: task_result._status = FAILURE / SUCCESS, then
\* self._queue.task_done() on the way back to the loop test.
worker_status(w) ==
    /\ wpc[w] = "status"
    /\ status' = [status EXCEPT ![wtask[w]] =
                      IF wout[w][1] = "exc" THEN FAILURE ELSE SUCCESS]
    /\ unfinished_tasks' = unfinished_tasks - 1
    /\ wtask' = [wtask EXCEPT ![w] = 0]
    /\ wout' = [wout EXCEPT ![w] = <<None, None>>]
    /\ wpc' = [wpc EXCEPT ![w] = "loop"]
    /\ UNCHANGED <<worker_lock, join_i, workers, halt_flag, queue, ntasks,
                   result, exception, last_finish, cv_waiters, get_vars,
                   hist_vars>>
    /\ UNCHANGED pixie_vars

_worker(w) ==
    \/ worker_loop(w)
    \/ worker_get(w)
    \/ worker_start(w)
    \/ worker_call(w)
    \/ worker_status(w)

\* ------------------------------------------------------- TaskResult.get
\* lines 196-198, reached with the result ready: re-raise or return
get_finish(g, t, propagate) ==
    /\ gtask' = [gtask EXCEPT ![g] = t]
    /\ gpropagate' = [gpropagate EXCEPT ![g] = propagate]
    /\ gtimeout' = [gtimeout EXCEPT ![g] = FALSE]
    /\ IF propagate /\ exception[t] # None
       THEN /\ gpc' = [gpc EXCEPT ![g] = "raised"]
            /\ gval' = [gval EXCEPT ![g] = exception[t]]
       ELSE /\ gpc' = [gpc EXCEPT ![g] = "returned"]
            /\ gval' = [gval EXCEPT ![g] = result[t]]

\* lines 191-193: enter get(); not ready means wait on the condition.
\* Each thread of the model calls get() once.
get_call(g, t, timeout, propagate) ==
    /\ gpc[g] = "idle"
    /\ t \in 1..ntasks
    /\ IF ready(t)
       THEN /\ get_finish(g, t, propagate)
            /\ UNCHANGED cv_waiters
       ELSE /\ gpc' = [gpc EXCEPT ![g] = "waiting"]
            /\ gtask' = [gtask EXCEPT ![g] = t]
            /\ gtimeout' = [gtimeout EXCEPT ![g] = timeout]
            /\ gpropagate' = [gpropagate EXCEPT ![g] = propagate]
            /\ gval' = [gval EXCEPT ![g] = None]
            /\ cv_waiters' = [cv_waiters EXCEPT ![t] = Append(@, g)]
    /\ UNCHANGED <<queue_vars, worker_vars, status, result, exception,
                   last_finish, hist_vars>>
    /\ UNCHANGED pixie_vars

\* Condition.wait(timeout) with a timeout: the time runs out
get_wait_expire(g) ==
    /\ gpc[g] = "waiting"
    /\ gtimeout[g]
    /\ gpc' = [gpc EXCEPT ![g] = "expired"]
    /\ UNCHANGED <<queue_vars, worker_vars, result_vars, gtask, gtimeout,
                   gpropagate, gval, hist_vars>>
    /\ UNCHANGED pixie_vars

\* get_wake waiting again after the time ran out, instead of raising
get_wake_wait_again(g) ==
    /\ gpc[g] \in {"notified", "expired"}
    /\ IF ready(gtask[g])
       THEN /\ get_finish(g, gtask[g], gpropagate[g])
            /\ cv_waiters' = [cv_waiters EXCEPT ![gtask[g]] = RemoveFirst(@, g)]
       ELSE /\ gpc' = [gpc EXCEPT ![g] = "waiting"]
            /\ cv_waiters' = [cv_waiters EXCEPT ![gtask[g]] =
                                  Append(RemoveFirst(@, g), g)]
            /\ UNCHANGED <<gtask, gtimeout, gpropagate, gval>>
    /\ UNCHANGED <<queue_vars, worker_vars, status, result, exception,
                   last_finish, hist_vars>>
    /\ UNCHANGED pixie_vars

\* lines 193-198: wait() returns with the condition's lock held again.
\* Not notified and a timeout given: raise Timeout.  Otherwise test ready()
\* again.
get_wake(g) ==
    /\ gpc[g] \in {"notified", "expired"}
    /\ IF gpc[g] = "expired"
       THEN /\ gpc' = [gpc EXCEPT ![g] = "Timeout"]
            /\ gval' = [gval EXCEPT ![g] = "Timeout"]
            /\ gtimeout' = [gtimeout EXCEPT ![g] = FALSE]
            /\ cv_waiters' = [cv_waiters EXCEPT ![gtask[g]] = RemoveFirst(@, g)]
            /\ UNCHANGED <<gtask, gpropagate>>
       ELSE IF ready(gtask[g])
       THEN /\ get_finish(g, gtask[g], gpropagate[g])
            /\ UNCHANGED cv_waiters
       ELSE /\ gpc' = [gpc EXCEPT ![g] = "waiting"]
            /\ cv_waiters' = [cv_waiters EXCEPT ![gtask[g]] = Append(@, g)]
            /\ UNCHANGED <<gtask, gtimeout, gpropagate, gval>>
    /\ UNCHANGED <<queue_vars, worker_vars, status, result, exception,
                   last_finish, hist_vars>>
    /\ UNCHANGED pixie_vars

get(g) ==
    \/ \E t \in TaskIds, timeout \in BOOLEAN, propagate \in BOOLEAN :
           get_call(g, t, timeout, propagate)
    \/ get_wait_expire(g)
    \/ get_wake(g)

\* ---------------------------------------------------- PixivPixie.download
\* l.601-676.  The record is passed as an object and the session is
\* logged in (check_auth is modelled further down).  l.656-667 compute the
\* path of every page, l.669 enters _download_multiple_urls.
download(cu, rp, ce, mt, fd) ==
    /\ dpc \in {"idle", "returned", "raised"}
    /\ ndownloads < MaxDownloads
    /\ convert_ugoira' = cu
    /\ replace' = rp
    /\ check_exists' = ce
    /\ max_tries' = mt
    /\ fake_download' = fd
    /\ download_target' = [i \in 1..Len(illust.image_urls) |->
                             <<illust.image_urls[i],
                               _get_file_path(illust.image_urls[i], cu)>>]
    /\ target_i' = 1
    /\ download_result' = <<>>
    /\ tries' = 0
    /\ frame_path' = NoPath
    /\ e_caught' = NoException
    /\ raised' = <<>>
    /\ dpc' = "one_url"
    /\ ndownloads' = ndownloads + 1
    /\ attempts' = [i \in 1..Len(illust.image_urls) |-> 0]
    /\ fails' = 0
    /\ fs_before' = fs
    /\ previous' = << [convert_ugoira |-> convert_ugoira,
                       check_exists |-> check_exists,
                       fake_download |-> fake_download,
                       dpc |-> dpc,
                       download_result |-> download_result] >>
    /\ UNCHANGED <<illust, fs>>
    /\ UNCHANGED <<tq_vars, auth_vars, ext_vars>>

\* l.589-599: _download_multiple_urls appends (url, path, downloaded) and
\* goes on with the next page, or returns the list after the last
_download_multiple_urls(downloaded) ==
    /\ download_result' = Append(download_result,
                                 <<download_target[target_i][1],
                                   download_target[target_i][2], downloaded>>)
    /\ IF target_i < Len(download_target)
       THEN /\ target_i' = target_i + 1
            /\ dpc' = "one_url"
       ELSE /\ dpc' = "returned"
            /\ UNCHANGED target_i

\* the checklist consulted only when not replacing
_download_one_url_begin_replace_all ==
    /\ dpc = "one_url"
    /\ LET path == download_target[target_i][2]
       IN  IF \/ ~replace /\ (exists(path) \/ _check_exist(path, check_exists))
              \/ fake_download
           THEN /\ _download_multiple_urls(FALSE)
                /\ UNCHANGED <<tries, frame_path>>
           ELSE /\ frame_path' = NoPath
                /\ tries' = 1
                /\ dpc' = "try"
                /\ UNCHANGED <<download_result, target_i>>
    /\ UNCHANGED <<illust, fs, download_args, download_target, e_caught,
                   raised, ndownloads, attempts, fails, fs_before, previous>>
    /\ UNCHANGED <<tq_vars, auth_vars, ext_vars>>

\* l.536-549: the page is skipped, or the retry loop is entered
_download_one_url_begin ==
    /\ dpc = "one_url"
    /\ LET path == download_target[target_i][2]
       IN  IF \/ ~replace /\ exists(path)
              \/ _check_exist(path, check_exists)
              \/ fake_download
           THEN /\ _download_multiple_urls(FALSE)
                /\ UNCHANGED <<tries, frame_path>>
           ELSE /\ frame_path' = NoPath
                /\ tries' = 1
                /\ dpc' = "try"
                /\ UNCHANGED <<download_result, target_i>>
    /\ UNCHANGED <<illust, fs, download_args, download_target, e_caught,
                   raised, ndownloads, attempts, fails, fs_before, previous>>
    /\ UNCHANGED <<tq_vars, auth_vars, ext_vars>>

\* utils/functions.py l.8-27, download(file, url): what one transfer comes
\* to.  requests raises (error), or the generator ends having written
\* wrote_size bytes of a response that declared total_size in its
\* Content-Length header, or declared nothing (<<>>).
Responses ==
    [error : BOOLEAN, wrote_size : 0..MaxBytes,
     total_size : {<<>>} \cup {Some(n) : n \in 0..MaxBytes}]

\* what the BytesIO buffer of l.554 holds after the transfer: the whole
\* file, or the beginning of it when fewer bytes came than were declared
buffer(response) ==
    IF /\ response.total_size # <<>>
       /\ response.wrote_size < response.total_size[1]
    THEN "truncated"
    ELSE "full"

\* the transfer returning whatever the number of bytes it wrote
_download_illust_to_file_unchecked(response) ==
    IF response.error THEN "transfer" ELSE None

\* l.505-526: the exception the transfer ends with, None when it returns.
\* HTTPError becomes APIError (l.524-526); a transfer that ends short of
\* the declared size raises APIError too (l.519-523).
_download_illust_to_file(response) ==
    IF response.error
    THEN "transfer"
    ELSE IF /\ response.total_size # <<>>
            /\ response.wrote_size < response.total_size[1]
         THEN "truncated"
         ELSE None

\* an attempt raising: the exception is caught at l.570
attempt_raises(kind) ==
    /\ fails < MaxFails
    /\ fails' = fails + 1
    /\ e_caught' = <<kind, tries>>
    /\ dpc' = "except"
    /\ UNCHANGED <<download_result, target_i>>

\* every file written under the name the url has, the gif too
_download_one_url_try_original_name ==
    /\ dpc = "try"
    /\ attempts' = [attempts EXCEPT ![target_i] = @ + 1]
    /\ LET path == <<directory, download_target[target_i][1][1],
                     download_target[target_i][1][2]>>
           part == <<"partial", ndownloads>>
           transfers == {<<_download_illust_to_file(response),
                           buffer(response)>> : response \in Responses}
       IN  \E transfer \in transfers :
           LET e == transfer[1]
               whole == <<transfer[2], ndownloads>>
           IN
           \/ /\ e # None
              /\ attempt_raises(e)
              /\ UNCHANGED <<fs, frame_path>>
           \/ /\ e = None
              /\ illust.type = UGOIRA /\ convert_ugoira
              /\ \/ /\ attempt_raises("convert")
                    /\ fs' \in {fs, write(fs, path, part)}
                 \/ /\ fs' = write(fs, path, whole)
                    /\ _download_multiple_urls(TRUE)
                    /\ UNCHANGED <<fails, e_caught>>
              /\ UNCHANGED frame_path
           \/ /\ e = None
              /\ ~(illust.type = UGOIRA /\ convert_ugoira)
              /\ \/ /\ attempt_raises("write")
                    /\ fs' \in {fs, write(fs, path, part)}
                    /\ UNCHANGED frame_path
                 \/ /\ illust.type # UGOIRA
                    /\ fs' = write(fs, path, whole)
                    /\ _download_multiple_urls(TRUE)
                    /\ UNCHANGED <<fails, e_caught, frame_path>>
                 \/ /\ illust.type = UGOIRA
                    /\ frame_path' = frame_path_of(path)
                    /\ \/ /\ attempt_raises("sidecar")
                          /\ fs' \in {write(fs, path, whole),
                                     write(write(fs, path, whole),
                                           frame_path_of(path), part)}
                       \/ /\ fs' = write(write(fs, path, whole),
                                        frame_path_of(path), whole)
                          /\ _download_multiple_urls(TRUE)
                          /\ UNCHANGED <<fails, e_caught>>
    /\ UNCHANGED <<illust, download_args, download_target, tries, raised,
                   ndownloads, fs_before, previous>>
    /\ UNCHANGED <<tq_vars, auth_vars, ext_vars>>

\* l.553-569: one attempt.  The transfer fills a buffer in memory and may
\* fail; then the gif is written by convert_zip_to_gif, or the file by
\* copyfileobj and, for an ugoira, the frame delays by print.  A write that
\* fails leaves the disk as it was (open failed) or the file partly written.
_download_one_url_try ==
    /\ dpc = "try"
    /\ attempts' = [attempts EXCEPT ![target_i] = @ + 1]
    /\ LET path == download_target[target_i][2]
           part == <<"partial", ndownloads>>
           transfers == {<<_download_illust_to_file(response),
                           buffer(response)>> : response \in Responses}
       IN  \E transfer \in transfers :
           LET e == transfer[1]
               whole == <<transfer[2], ndownloads>>
           IN
           \/ /\ e # None
              /\ attempt_raises(e)
              /\ UNCHANGED <<fs, frame_path>>
           \/ /\ e = None
              /\ illust.type = UGOIRA /\ convert_ugoira
              /\ \/ /\ attempt_raises("convert")
                    /\ fs' \in {fs, write(fs, path, part)}
                 \/ /\ fs' = write(fs, path, whole)
                    /\ _download_multiple_urls(TRUE)
                    /\ UNCHANGED <<fails, e_caught>>
              /\ UNCHANGED frame_path
           \/ /\ e = None
              /\ ~(illust.type = UGOIRA /\ convert_ugoira)
              /\ \/ /\ attempt_raises("write")
                    /\ fs' \in {fs, write(fs, path, part)}
                    /\ UNCHANGED frame_path
                 \/ /\ illust.type # UGOIRA
                    /\ fs' = write(fs, path, whole)
                    /\ _download_multiple_urls(TRUE)
                    /\ UNCHANGED <<fails, e_caught, frame_path>>
                 \/ /\ illust.type = UGOIRA
                    /\ frame_path' = frame_path_of(path)
                    /\ \/ /\ attempt_raises("sidecar")
                          /\ fs' \in {write(fs, path, whole),
                                     write(write(fs, path, whole),
                                           frame_path_of(path), part)}
                       \/ /\ fs' = write(write(fs, path, whole),
                                        frame_path_of(path), whole)
                          /\ _download_multiple_urls(TRUE)
                          /\ UNCHANGED <<fails, e_caught>>
    /\ UNCHANGED <<illust, download_args, download_target, tries, raised,
                   ndownloads, fs_before, previous>>
    /\ UNCHANGED <<tq_vars, auth_vars, ext_vars>>

\* l.574 with "tries <= max_tries": one attempt too many
_download_one_url_except_one_more ==
    /\ dpc = "except"
    /\ fs' = _try_remove_file(
                 _try_remove_file(fs, download_target[target_i][2]),
                 frame_path)
    /\ IF max_tries = NoLimit \/ tries <= max_tries[2]
       THEN /\ tries' = tries + 1
            /\ dpc' = "try"
            /\ UNCHANGED raised
       ELSE /\ raised' = << [illust |-> illust, msg |-> e_caught] >>
            /\ dpc' = "raised"
            /\ UNCHANGED tries
    /\ UNCHANGED <<illust, download_args, download_target, target_i,
                   frame_path, download_result, e_caught, ndownloads,
                   attempts, fails, fs_before, previous>>
    /\ UNCHANGED <<tq_vars, auth_vars, ext_vars>>

\* l.574 without "max_tries is None or": None counts as no retry
_download_one_url_except_none_is_zero ==
    /\ dpc = "except"
    /\ fs' = _try_remove_file(
                 _try_remove_file(fs, download_target[target_i][2]),
                 frame_path)
    /\ IF max_tries # NoLimit /\ tries < max_tries[2]
       THEN /\ tries' = tries + 1
            /\ dpc' = "try"
            /\ UNCHANGED raised
       ELSE /\ raised' = << [illust |-> illust, msg |-> e_caught] >>
            /\ dpc' = "raised"
            /\ UNCHANGED tries
    /\ UNCHANGED <<illust, download_args, download_target, target_i,
                   frame_path, download_result, e_caught, ndownloads,
                   attempts, fails, fs_before, previous>>
    /\ UNCHANGED <<tq_vars, auth_vars, ext_vars>>

\* without l.572: the frame delay file is left behind
_download_one_url_except_keep_frames ==
    /\ dpc = "except"
    /\ fs' = _try_remove_file(fs, download_target[target_i][2])
    /\ IF max_tries = NoLimit \/ tries < max_tries[2]
       THEN /\ tries' = tries + 1
            /\ dpc' = "try"
            /\ UNCHANGED raised
       ELSE /\ raised' = << [illust |-> illust, msg |-> e_caught] >>
            /\ dpc' = "raised"
            /\ UNCHANGED tries
    /\ UNCHANGED <<illust, download_args, download_target, target_i,
                   frame_path, download_result, e_caught, ndownloads,
                   attempts, fails, fs_before, previous>>
    /\ UNCHANGED <<tq_vars, auth_vars, ext_vars>>

\* l.570-577: both files are removed; another attempt, or DownloadError
\* with the record and the exception just caught
_download_one_url_except ==
    /\ dpc = "except"
    /\ fs' = _try_remove_file(
                 _try_remove_file(fs, download_target[target_i][2]),
                 frame_path)
    /\ IF max_tries = NoLimit \/ tries < max_tries[2]
       THEN /\ tries' = tries + 1
            /\ dpc' = "try"
            /\ UNCHANGED raised
       ELSE /\ raised' = << [illust |-> illust, msg |-> e_caught] >>
            /\ dpc' = "raised"
            /\ UNCHANGED tries
    /\ UNCHANGED <<illust, download_args, download_target, target_i,
                   frame_path, download_result, e_caught, ndownloads,
                   attempts, fails, fs_before, previous>>
    /\ UNCHANGED <<tq_vars, auth_vars, ext_vars>>

_download_one_url ==
    \/ _download_one_url_begin
    \/ _download_one_url_try
    \/ _download_one_url_except

\* -------------------------------------------------- PixivPixie.check_auth
\* l.88-124, called by the user of the object (cli.py 285) before any
\* worker runs: empty credentials or a PixivError from the server raise
\* LoginFailed and change nothing; otherwise the session is stored.
login(u, p, accepted) ==
    /\ ~has_auth
    /\ IF u = "" \/ p = "" \/ ~accepted
       THEN UNCHANGED <<has_auth, username, password, last_login>>
       ELSE /\ has_auth' = TRUE
            /\ username' = u
            /\ password' = p
            /\ last_login' = <<now>>
    /\ UNCHANGED <<now, auto_re_login, check_auth_lock, apc, aop, seen_login,
                   net_called, relogins>>
    /\ UNCHANGED <<tq_vars, download_vars, ext_vars>>

\* l.35-36: a decorated operation is called; check_auth comes first
_need_auth(t, op) ==
    /\ apc[t] \in {"idle", "done", "NoAuth", "LoginFailed"}
    /\ apc' = [apc EXCEPT ![t] = "lock"]
    /\ aop' = [aop EXCEPT ![t] = op]
    /\ seen_login' = [seen_login EXCEPT ![t] = <<>>]
    /\ net_called' = [net_called EXCEPT ![t] = FALSE]
    /\ UNCHANGED <<now, auto_re_login, has_auth, last_login, username,
                   password, check_auth_lock, relogins>>
    /\ UNCHANGED <<tq_vars, download_vars, ext_vars>>

\* entering the with block without taking the lock
check_auth_enter_unlocked(t) ==
    /\ apc[t] = "lock"
    /\ apc' = [apc EXCEPT ![t] = "check"]
    /\ UNCHANGED <<now, auto_re_login, has_auth, last_login, username,
                   password, check_auth_lock, aop, seen_login, net_called,
                   relogins>>
    /\ UNCHANGED <<tq_vars, download_vars, ext_vars>>

\* l.137: with self._check_auth_lock
check_auth_enter(t) ==
    /\ apc[t] = "lock"
    /\ check_auth_lock = 0
    /\ check_auth_lock' = t
    /\ apc' = [apc EXCEPT ![t] = "check"]
    /\ UNCHANGED <<now, auto_re_login, has_auth, last_login, username,
                   password, aop, seen_login, net_called, relogins>>
    /\ UNCHANGED <<tq_vars, download_vars, ext_vars>>

\* an expired token without auto_re_login let through
check_auth_test_no_raise(t) ==
    /\ apc[t] = "check"
    /\ IF ~has_auth
       THEN /\ apc' = [apc EXCEPT ![t] = "NoAuth"]
            /\ check_auth_lock' = 0
            /\ UNCHANGED seen_login
       ELSE /\ seen_login' = [seen_login EXCEPT ![t] = last_login]
            /\ IF token_expired /\ auto_re_login
               THEN /\ apc' = [apc EXCEPT ![t] = "login"]
                    /\ UNCHANGED check_auth_lock
               ELSE /\ apc' = [apc EXCEPT ![t] = "func"]
                    /\ check_auth_lock' = 0
    /\ UNCHANGED <<now, auto_re_login, has_auth, last_login, username,
                   password, aop, net_called, relogins>>
    /\ UNCHANGED <<tq_vars, download_vars, ext_vars>>

\* l.138-145: no session, NoAuth; token expired, login() or NoAuth; else
\* the with block ends and the decorated function runs
check_auth_test(t) ==
    /\ apc[t] = "check"
    /\ IF ~has_auth
       THEN /\ apc' = [apc EXCEPT ![t] = "NoAuth"]
            /\ check_auth_lock' = 0
            /\ UNCHANGED seen_login
       ELSE /\ seen_login' = [seen_login EXCEPT ![t] = last_login]
            /\ IF token_expired
               THEN IF auto_re_login
                    THEN /\ apc' = [apc EXCEPT ![t] = "login"]
                         /\ UNCHANGED check_auth_lock
                    ELSE /\ apc' = [apc EXCEPT ![t] = "NoAuth"]
                         /\ check_auth_lock' = 0
               ELSE /\ apc' = [apc EXCEPT ![t] = "func"]
                    /\ check_auth_lock' = 0
    /\ UNCHANGED <<now, auto_re_login, has_auth, last_login, username,
                   password, aop, net_called, relogins>>
    /\ UNCHANGED <<tq_vars, download_vars, ext_vars>>

\* l.143 with l.106-122: login(self._username, self._password) comes back,
\* with LoginFailed or with the session renewed; either way the with block
\* of l.137 ends
check_auth_login(t, accepted) ==
    /\ apc[t] = "login"
    /\ IF username = "" \/ password = "" \/ ~accepted
       THEN /\ apc' = [apc EXCEPT ![t] = "LoginFailed"]
            /\ UNCHANGED <<has_auth, last_login, relogins>>
       ELSE /\ has_auth' = TRUE
            /\ last_login' = <<now>>
            /\ relogins' = relogins \o seen_login[t]
            /\ apc' = [apc EXCEPT ![t] = "func"]
    /\ check_auth_lock' = 0
    /\ UNCHANGED <<now, auto_re_login, username, password, aop, seen_login,
                   net_called>>
    /\ UNCHANGED <<tq_vars, download_vars, ext_vars>>

\* l.37: the decorated function makes its network call
func(t) ==
    /\ apc[t] = "func"
    /\ net_called' = [net_called EXCEPT ![t] = TRUE]
    /\ apc' = [apc EXCEPT ![t] = "done"]
    /\ UNCHANGED <<now, auto_re_login, has_auth, last_login, username,
                   password, check_auth_lock, aop, seen_login, relogins>>
    /\ UNCHANGED <<tq_vars, download_vars, ext_vars>>

check_auth(t) ==
    \/ check_auth_enter(t)
    \/ check_auth_test(t)
    \/ \E accepted \in BOOLEAN : check_auth_login(t, accepted)

\* time passes
tick ==
    /\ now < MaxTime
    /\ now' = now + 1
    /\ UNCHANGED <<auto_re_login, has_auth, last_login, username, password,
                   check_auth_lock, apc, aop, seen_login, net_called,
                   relogins>>
    /\ UNCHANGED <<tq_vars, download_vars, ext_vars>>

\* ------------------------------------------------------------ Downloader
\* TaskQueue.enqueue as the Downloader calls it: the TaskResult is new and
\* PENDING, the task goes to the tail of the queue
put(call) ==
    /\ ntasks' = ntasks + 1
    /\ queue' = Append(queue, ntasks + 1)
    /\ unfinished_tasks' = unfinished_tasks + 1
    /\ task_call' = Append(task_call, call)

\* the TaskResults the calls made so far can need: one for each _fetch
\* and one for each record of its source
RECURSIVE Reserved(_)
Reserved(cs) ==
    IF cs = <<>> THEN 0
    ELSE (IF Head(cs).func = "_fetch"
          THEN 1 + Len(Head(cs).source.items) ELSE 0) + Reserved(Tail(cs))

\* l.26-67: under the lock, name the record, enqueue _fetch(source, record)
\* and append the record.  Nothing in the section waits, so it is one step.
add_fetch_task(source, name, spec, info) ==
    /\ ~downloader._lock
    /\ Len(downloader._records) < MaxFetchTasks
    /\ Reserved(task_call) + 1 + Len(source.items) <= MaxDriverTasks
    /\ put(FetchCall(source, Len(downloader._records) + 1, spec, info))
    /\ downloader' =
           [downloader EXCEPT !._records =
                Append(@, [name |-> IF name = <<>>
                                    THEN <<"Task", Len(downloader._records) + 1>>
                                    ELSE name,
                           result |-> ntasks + 1,
                           children |-> <<>>])]
    /\ UNCHANGED <<worker_lock, join_i, workers, halt_flag, worker_vars,
                   result_vars, get_vars, hist_vars, fetch_frame, observer,
                   download_vars, auth_vars, queen, fp>>

\* l.116-142: the worker enters _fetch and builds the QuerySet
_fetch_call(w) ==
    /\ wpc[w] = "call"
    /\ task_call[wtask[w]].func = "_fetch"
    /\ fetch_frame[w].pc = "idle"
    /\ fetch_frame' =
           [fetch_frame EXCEPT ![w] =
                [NoFrame EXCEPT !.pc = "next",
                                !.qs = pipeline(task_call[wtask[w]].source,
                                                task_call[wtask[w]].spec)]]
    /\ UNCHANGED <<tq_vars, downloader, task_call, observer, download_vars,
                   auth_vars, queen, fp>>

\* l.144-155: the next record of the QuerySet is enqueued for download;
\* when the QuerySet ends _fetch returns None, when it raises so does
\* _fetch, and the worker stores the one or the other (task_queue.py
\* l.114-119)
_fetch_next(w) ==
    /\ wpc[w] = "call"
    /\ fetch_frame[w].pc = "next"
    /\ LET frame == fetch_frame[w]
           call == task_call[wtask[w]]
       IN  IF frame.qs.items # <<>>
           THEN /\ put(DownloadCall(Head(frame.qs.items),
                                    inject_order(call.addition_naming_info,
                                                 frame.order + 1)))
                /\ fetch_frame' =
                       [fetch_frame EXCEPT ![w] =
                            [pc |-> "append",
                             qs |-> Stream(Tail(frame.qs.items),
                                           frame.qs.raised),
                             order |-> frame.order + 1,
                             illust |-> Some(Head(frame.qs.items)),
                             result |-> ntasks + 1]]
                /\ UNCHANGED <<worker_lock, join_i, workers, halt_flag,
                               worker_vars, result_vars, get_vars, hist_vars>>
           ELSE /\ LET o == IF frame.qs.raised = None
                            THEN <<"ret", None>>
                            ELSE <<"exc", frame.qs.raised>>
                   IN  /\ wout' = [wout EXCEPT ![w] = o]
                       /\ calls' = [calls EXCEPT ![wtask[w]] = Append(@, o)]
                       /\ IF o[1] = "exc"
                          THEN _set_exception(wtask[w], o[2])
                          ELSE _set_result(wtask[w], o[2])
                /\ wpc' = [wpc EXCEPT ![w] = "status"]
                /\ fetch_frame' = [fetch_frame EXCEPT ![w] = NoFrame]
                /\ UNCHANGED <<queue_vars, wtask, status, gtask, gtimeout,
                               gpropagate, gval, generations, last_call,
                               task_call>>
    /\ UNCHANGED <<downloader, observer, download_vars, auth_vars, queen, fp>>

\* _fetch waiting for the download it enqueued before it goes on
_fetch_append_after_child(w) ==
    /\ wpc[w] = "call"
    /\ fetch_frame[w].pc = "append"
    /\ ~downloader._lock
    /\ ready(fetch_frame[w].result)
    /\ downloader' =
           [downloader EXCEPT
                !._records[task_call[wtask[w]].record].children =
                    Append(@, <<fetch_frame[w].illust[1],
                                fetch_frame[w].result>>)]
    /\ fetch_frame' = [fetch_frame EXCEPT ![w].pc = "next",
                                          ![w].illust = <<>>,
                                          ![w].result = 0]
    /\ UNCHANGED <<tq_vars, task_call, observer, download_vars, auth_vars, queen, fp>>

\* appending the child without the lock
_fetch_append_unlocked(w) ==
    /\ wpc[w] = "call"
    /\ fetch_frame[w].pc = "append"
    /\ downloader' =
           [downloader EXCEPT
                !._records[task_call[wtask[w]].record].children =
                    Append(@, <<fetch_frame[w].illust[1],
                                fetch_frame[w].result>>)]
    /\ fetch_frame' = [fetch_frame EXCEPT ![w].pc = "next",
                                          ![w].illust = <<>>,
                                          ![w].result = 0]
    /\ UNCHANGED <<tq_vars, task_call, observer, download_vars, auth_vars, queen, fp>>

\* l.156-157: with self._lock: record_obj.children.append((illust, result))
_fetch_append(w) ==
    /\ wpc[w] = "call"
    /\ fetch_frame[w].pc = "append"
    /\ ~downloader._lock
    /\ downloader' =
           [downloader EXCEPT
                !._records[task_call[wtask[w]].record].children =
                    Append(@, <<fetch_frame[w].illust[1],
                                fetch_frame[w].result>>)]
    /\ fetch_frame' = [fetch_frame EXCEPT ![w].pc = "next",
                                          ![w].illust = <<>>,
                                          ![w].result = 0]
    /\ UNCHANGED <<tq_vars, task_call, observer, download_vars, auth_vars, queen, fp>>

_fetch(w) ==
    \/ _fetch_call(w)
    \/ _fetch_next(w)
    \/ _fetch_append(w)

\* l.152: the task of a child is pixie.download_illust(**kwargs), a
\* function of the pixie the Downloader was given: it returns or raises
download_illust(w) ==
    /\ wpc[w] = "call"
    /\ task_call[wtask[w]].func = "download_illust"
    /\ worker_call(w)
    /\ wout'[w][2] \in {"r1", "e1"}

\* l.91-92: status() takes the lock
status_call ==
    /\ observer.pc = "idle"
    /\ ~downloader._lock
    /\ downloader' = [downloader EXCEPT !._lock = TRUE]
    /\ observer' =
           [observer EXCEPT
                !.pc = "status", !.i = 1, !.j = 0, !.snapshot = <<>>,
                !.at_acquire =
                    \A r \in Range(downloader._records) :
                        /\ status[r.result] \in {FAILURE, SUCCESS}
                        /\ \A c \in Range(r.children) :
                               status[c[2]] \in {FAILURE, SUCCESS}]
    /\ UNCHANGED <<tq_vars, task_call, fetch_frame, download_vars, auth_vars, queen, fp>>

\* the TaskResult status() reads next: of record i itself (j = 0) or of
\* its j-th child
read_result ==
    LET record == downloader._records[observer.i]
    IN  IF observer.j = 0 THEN record.result
        ELSE record.children[observer.j][2]

\* l.96 / l.100: record.result.status, child_result.status
status_read_status ==
    /\ observer.pc = "status"
    /\ observer.i <= Len(downloader._records)
    /\ observer' = [observer EXCEPT !.pc = "exception",
                                    !.seen = status[read_result]]
    /\ UNCHANGED <<tq_vars, downloader, task_call, fetch_frame, download_vars,
                   auth_vars, queen, fp>>

\* l.97 / l.101: .exception; the entry joins the array being built
status_read_exception ==
    /\ observer.pc = "exception"
    /\ LET record == downloader._records[observer.i]
           last == observer.j = Len(record.children)
       IN  observer' =
               [observer EXCEPT
                    !.pc = "status",
                    !.i = IF last THEN @ + 1 ELSE @,
                    !.j = IF last THEN 0 ELSE @ + 1,
                    !.snapshot =
                        IF observer.j = 0
                        THEN Append(@, [name |-> record.name,
                                        status |-> observer.seen,
                                        exception |-> exception[read_result],
                                        children |-> <<>>])
                        ELSE [@ EXCEPT ![observer.i].children =
                                 Append(@, [illust_id |->
                                                record.children[observer.j][1].illust_id,
                                            status |-> observer.seen,
                                            exception |-> exception[read_result]])]]
    /\ UNCHANGED <<tq_vars, downloader, task_call, fetch_frame, download_vars,
                   auth_vars, queen, fp>>

\* the names of the tasks of a status() array, each with the ids of its
\* children
Shape(snapshot) ==
    [i \in 1..Len(snapshot) |->
         [name |-> snapshot[i].name,
          children |-> [j \in 1..Len(snapshot[i].children) |->
                            snapshot[i].children[j].illust_id]]]

\* all_done answering for the top-level tasks only
all_done_top_level ==
    /\ observer.pc = "status"
    /\ observer.i > Len(downloader._records)
    /\ downloader' = [downloader EXCEPT !._lock = FALSE]
    /\ observer' =
           [observer EXCEPT
                !.pc = "idle",
                !.snapshot = <<>>,
                !.previous = Some(Shape(observer.snapshot)),
                !.at_acquire = FALSE,
                !.returned =
                    Some(\A r \in Range(observer.snapshot) :
                             r.status \in {FAILURE, SUCCESS})]
    /\ UNCHANGED <<tq_vars, task_call, fetch_frame, download_vars, auth_vars, queen, fp>>

\* l.104 and l.106-114: status() releases the lock and returns the array;
\* all_done() looks for a status that is neither FAILURE nor SUCCESS
all_done ==
    /\ observer.pc = "status"
    /\ observer.i > Len(downloader._records)
    /\ downloader' = [downloader EXCEPT !._lock = FALSE]
    /\ observer' =
           [observer EXCEPT
                !.pc = "idle",
                !.snapshot = <<>>,
                !.previous = Some(Shape(observer.snapshot)),
                !.at_acquire = FALSE,
                !.returned =
                    Some(\A r \in Range(observer.snapshot) :
                             /\ r.status \in {FAILURE, SUCCESS}
                             /\ \A c \in Range(r.children) :
                                    c.status \in {FAILURE, SUCCESS})]
    /\ UNCHANGED <<tq_vars, task_call, fetch_frame, download_vars, auth_vars, queen, fp>>

\* ------------------------------------------------------------ PixieQueen
\* (pixiv_pixie/queen.py)  fetch_and_download runs in one thread of the
\* executor; self.download(**kwargs) submits a download to the executor and
\* returns its Future at once.

\* l.74-78 and l.143-151: the kwargs of one self.download(**kwargs)
download_kwargs(il, info, order) ==
    [illust |-> il, addition_naming_info |-> inject_order(info, order)]

\* l.154-159: except Exception as e
fetch_and_download_except(e) ==
    IF queen.max_tries = <<>> \/ queen.tries < queen.max_tries[1]
    THEN /\ queen.tries < MaxFetchTries
         /\ queen' = [queen EXCEPT !.pc = "try", !.tries = @ + 1,
                                   !.qs = Stream(<<>>, None), !.order = 0,
                                   !.output = <<>>]
    ELSE queen' = [queen EXCEPT !.pc = "raised", !.exception = Some(e),
                                !.fetch_call = Some(queen.fetch),
                                !.qs = Stream(<<>>, None), !.order = 0]

\* l.80-125: the call: fetch = FunctionCall(...), futures = [], and the
\* first turn of 'for tries in count(start=1)'
fetch_and_download(fetch, fetch_max_tries, spec, info) ==
    /\ queen.pc = "idle"
    /\ queen' = [queen EXCEPT !.pc = "try", !.fetch = fetch,
                              !.max_tries = fetch_max_tries, !.spec = spec,
                              !.info = info, !.tries = 1, !.futures = <<>>]
    /\ UNCHANGED <<tq_vars, download_vars, auth_vars, driver_vars, fp>>

\* l.127-141: qs = fetch() and the pipeline over it.  A call that lacks a
\* required argument raises TypeError; otherwise the fetch function
\* returns a QuerySet over what the service delivers this time.
fetch_and_download_fetch(sources) ==
    /\ queen.pc = "try"
    /\ IF queen.fetch.missing_argument
       THEN fetch_and_download_except("TypeError")
       ELSE \E source \in sources :
                queen' = [queen EXCEPT
                              !.pc = "iterate",
                              !.qs = pipeline(source, queen.spec),
                              !.output = pipeline(source, queen.spec).items]
    /\ UNCHANGED <<tq_vars, download_vars, auth_vars, driver_vars, fp>>

fetch_and_download_try == fetch_and_download_fetch(Sources)

\* l.143-153: the next record of qs.enumerate(start=1) is submitted and
\* its pair joins futures; at the end of the QuerySet futures is returned;
\* an exception of the QuerySet goes to the except clause
fetch_and_download_next ==
    /\ queen.pc = "iterate"
    /\ IF queen.qs.items # <<>>
       THEN queen' =
                [queen EXCEPT
                     !.qs = Stream(Tail(queen.qs.items), queen.qs.raised),
                     !.order = @ + 1,
                     !.submitted =
                         Append(@, download_kwargs(Head(queen.qs.items),
                                                   queen.info,
                                                   queen.order + 1)),
                     !.futures =
                         Append(@, <<Head(queen.qs.items),
                                     Len(queen.submitted) + 1>>)]
       ELSE IF queen.qs.raised = None
       THEN queen' = [queen EXCEPT !.pc = "done"]
       ELSE fetch_and_download_except(queen.qs.raised)
    /\ UNCHANGED <<tq_vars, download_vars, auth_vars, driver_vars, fp>>

\* ------------------------------------------------------------- cli.py
\* ILLUST_TYPE (l.43-47)
ILLUST_TYPE == [illust |-> ILLUST, manga |-> MANGA, ugoira |-> UGOIRA]

\* A Python int n is <<"int", n>> and the str of its digits <<"str", n>>
\* where both meet: they are never equal.  The records the service
\* delivers to the command line: tags are strings, user_id and width are
\* ints of the JSON answer (illust.py l.192-197).
TaggedRecords ==
    [illust_id : 1..MaxTimeline, type : {ILLUST, MANGA},
     total_bookmarks : {0}, tags : {{"R-18"}, {"cat"}},
     user_id : {<<"int", 1>>, <<"int", 2>>}, width : {1, 2}]

Timelines ==
    {Stream(items, exc) :
        items \in UNION {{f \in [1..n -> TaggedRecords] :
                              \A i \in 1..n : f[i].illust_id = i} :
                         n \in 0..MaxTimeline},
        exc \in {None, "APIError"}}

\* get_parser (l.71-180): what parse_args gives for the options the
\* filter is made of.  An option that was not given is None; the lists of
\* --exclude-tag and --exclude-user-id hold strings (no type=), the
\* numbers of type=int options are ints.  The other size and date options
\* (l.137-145) stay None: each adds one more conjunct like min_width's.
Args ==
    [sort_by_bookmark : BOOLEAN, limit : {<<>>, Some(1)},
     no_r18 : BOOLEAN, exclude_tag : {<<>>, Some(<<"cat">>)},
     exclude_user_id : {<<>>, Some(<< <<"str", 1>> >>)},
     min_width : {<<>>, Some(2)}, type : {<<>>, Some("illust")},
     max_tries : {1}]

\* l.192-202
tag_black_list(args) ==
    (IF args.exclude_tag # <<>> THEN args.exclude_tag[1] ELSE <<>>)
        \o (IF args.no_r18 THEN <<"R-18", "R-18G">> ELSE <<>>)
user_black_list(args) ==
    IF args.exclude_user_id # <<>> THEN args.exclude_user_id[1] ELSE <<>>

\* l.204-208: 'exclude_q = exclude_q | Q(...)' for each entry of a list
RECURSIVE any_of(_, _, _)
any_of(q, query_string, values) ==
    IF values = <<>> THEN q
    ELSE any_of(QOr(q, Q(query_string, Head(values))), query_string,
                Tail(values))

\* l.184-230: the keyword arguments get_filter_option makes of the
\* options.  exclude_q and filter_q are always there, each a Q object:
\* with no blacklist exclude_q is ~Q(), with no filter filter_q is Q().
get_filter_option(args) ==
    LET exclude_q == any_of(any_of(QNot(QAll), <<"tags", "contains">>,
                                   tag_black_list(args)),
                            <<"user_id">>, user_black_list(args))
        by_width == IF args.min_width # <<>>
                    THEN QAnd(QAll, Q(<<"width", "gte">>, args.min_width[1]))
                    ELSE QAll
        filter_q == IF args.type # <<>>
                    THEN QAnd(by_width,
                              Q(<<"type">>, ILLUST_TYPE[args.type[1]]))
                    ELSE by_width
    IN  [order_by |-> IF args.sort_by_bookmark
                      THEN << <<"total_bookmarks", TRUE>> >> ELSE <<>>,
         limit_before |-> <<>>,
         filter_q |-> Some(filter_q),
         exclude_q |-> Some(exclude_q),
         limit_after |-> IF args.limit # <<>> /\ args.limit[1] # 0
                         THEN args.limit ELSE <<>>]

\* l.263-283: cli(args) up to the login
cli(args) ==
    /\ queen.pc = "idle"
    /\ queen.args = <<>>
    /\ queen' = [queen EXCEPT !.args = Some(args)]
    /\ UNCHANGED <<tq_vars, download_vars, auth_vars, driver_vars, fp>>

\* l.266-267 and l.358-366: the fetch of the task is handed to the queen
\* with **filter_option; get_download_kwargs (l.233-240) gives no
\* addition_naming_info
cli_fetch_and_download ==
    /\ queen.args # <<>>
    /\ fetch_and_download(
           [missing_argument |-> FALSE],
           IF queen.args[1].max_tries <= 0
           THEN <<>> ELSE Some(queen.args[1].max_tries),
           get_filter_option(queen.args[1]), <<>>)

\* ---------------------------------------------------------- fp.Q, Query
\* (pixiv_pixie/utils/fp.py)  The inputs are the records of the tests'
\* truth table (tests/test_utils_fp.py l.148-153).  A Python value is an
\* integer, True and False being 1 and 0; a call gives a value or raises.
table == [a : {0, 1}, b : {0, 1}]

Returned(v) == [raised |-> None, value |-> v]
Raised(e) == [raised |-> e, value |-> 0]
bool(p) == IF p THEN 1 ELSE 0

\* l.473-520: the names Q.register_lookup has registered (those the model
\* uses) and l.263
_lookups == {"eq", "exact", "ne", "lt", "gte"}
_default_lookup_name == "eq"

\* the registered function of a name, applied
lookup_func(lookup_name, value, param) ==
    CASE lookup_name \in {"eq", "exact"} -> bool(value = param)
      [] lookup_name = "ne" -> bool(value # param)
      [] lookup_name = "lt" -> bool(value < param)
      [] lookup_name = "gte" -> bool(value >= param)

\* l.319-372: the getters of the names, chained.  A record of the table
\* has the fields it has; the number a field gave has none, and
\* field_getter raises LookupError.
chained_field_getter(names, obj) ==
    IF names = <<>> THEN Returned(obj)
    ELSE IF Len(names) > 1 \/ names[1] \notin DOMAIN obj
    THEN Raised("LookupError")
    ELSE Returned(obj[names[1]])

\* the callables a caller wraps in a Q: lambda x: x['a'],
\* lambda x: 2 * x['b'] (a result that is no bool), lambda x: 1 // 0
Callables == {"a", "double_b", "raises"}
apply(callable, x) ==
    CASE callable = "a" -> Returned(x.a)
      [] callable = "double_b" -> Returned(2 * x.b)
      [] callable = "raises" -> Raised("ZeroDivisionError")
      [] callable = "true" -> Returned(1)

\* a Q object: what its _func is and what that closes over
QObject(kind, callable, fields, lookup_name, param, lhs, rhs) ==
    [kind |-> kind, func |-> callable, fields |-> fields,
     lookup_name |-> lookup_name, param |-> param, lhs |-> lhs, rhs |-> rhs]

\* F.__call__ (l.106-108) on the Q object q of the heap, by the lambda
\* its constructor made: Q(callable) l.405-415, from_lookup l.399-402,
\* __invert__ l.419-422, __and__ l.427-430, __or__ l.440-446
RECURSIVE __call__(_, _, _)
__call__(heap, q, x) ==
    LET self == heap[q]
    IN  CASE self.kind = "func" -> apply(self.func, x)
          [] self.kind = "q" -> __call__(heap, self.lhs, x)
          [] self.kind = "lookup" ->
                 LET got == chained_field_getter(self.fields, x)
                 IN  IF got.raised # None THEN got
                     ELSE Returned(lookup_func(self.lookup_name, got.value,
                                               self.param))
          [] self.kind = "not" ->
                 LET r == __call__(heap, self.lhs, x)
                 IN  IF r.raised # None THEN r
                     ELSE Returned(bool(r.value = 0))
          [] self.kind = "and" ->
                 LET l == __call__(heap, self.lhs, x)
                 IN  IF l.raised # None \/ l.value = 0 THEN l
                     ELSE __call__(heap, self.rhs, x)
          [] self.kind = "or" ->
                 LET l == __call__(heap, self.lhs, x)
                 IN  IF l.raised # None \/ l.value # 0 THEN l
                     ELSE __call__(heap, self.rhs, x)

\* l.374-403: Q.from_lookup(lookup, param); lookup is the list split()
\* gives.  The last name is the lookup name only if it is registered,
\* else it stays a field and the lookup is the default; get_lookup is
\* then given a registered name.
from_lookup_object(lookup, param) ==
    LET last == lookup[Len(lookup)]
        registered == last \in _lookups
    IN  QObject("lookup", "",
                IF registered THEN SubSeq(lookup, 1, Len(lookup) - 1)
                ELSE lookup,
                IF registered THEN last ELSE _default_lookup_name,
                param, 0, 0)

from_lookup(lookup, param) ==
    /\ fp' = [fp EXCEPT !.heap = Append(@, from_lookup_object(lookup, param))]
    /\ UNCHANGED <<tq_vars, download_vars, auth_vars, driver_vars, queen>>

\* l.405-415: Q(callable) for a callable
Q__init__(callable) ==
    /\ fp' = [fp EXCEPT !.heap = Append(@, QObject("func", callable, <<>>, "",
                                                   0, 0, 0))]
    /\ UNCHANGED <<tq_vars, download_vars, auth_vars, driver_vars, queen>>

\* ~q negating q itself: q keeps its old function aside and becomes its
\* negation
__invert___in_place(q) ==
    /\ fp' = [fp EXCEPT
                  !.heap = [Append(@, fp.heap[q]) EXCEPT
                                ![q] = QObject("not", "", <<>>, "", 0,
                                               Len(fp.heap) + 1, 0)]]
    /\ UNCHANGED <<tq_vars, download_vars, auth_vars, driver_vars, queen>>

\* l.417-422: ~q is a new Q object whose function is 'not self(...)'
__invert__(q) ==
    /\ fp' = [fp EXCEPT !.heap = Append(@, QObject("not", "", <<>>, "", 0,
                                                   q, 0))]
    /\ UNCHANGED <<tq_vars, download_vars, auth_vars, driver_vars, queen>>

\* q & other answering for either of the two
__and___or(q, other) ==
    /\ fp' = [fp EXCEPT !.heap = Append(@, QObject("or", "", <<>>, "", 0,
                                                   q, other))]
    /\ UNCHANGED <<tq_vars, download_vars, auth_vars, driver_vars, queen>>

\* l.424-430: q & other is a new Q object, 'self(...) and other(...)'
__and__(q, other) ==
    /\ fp' = [fp EXCEPT !.heap = Append(@, QObject("and", "", <<>>, "", 0,
                                                   q, other))]
    /\ UNCHANGED <<tq_vars, download_vars, auth_vars, driver_vars, queen>>

\* l.302-317: Q.get_lookup(lookup_name) called by itself
get_lookup(lookup_name) ==
    /\ fp' = [fp EXCEPT !.error = IF lookup_name \notin _lookups
                                  THEN Some("ValueError") ELSE <<>>]
    /\ UNCHANGED <<tq_vars, download_vars, auth_vars, driver_vars, queen>>

\* l.523-534: _make_q(callable): Q(lambda x: True) & Q(callable), three new
\* objects after the n the heap has
_make_q(n, callable) ==
    <<QObject("func", "true", <<>>, "", 0, 0, 0),
      QObject("q", "", <<>>, "", 0, callable, 0),
      QObject("and", "", <<>>, "", 0, n + 1, n + 2)>>

\* l.717-726: Query.filter(callable) on the Query parent (0: the Query made
\* over the source): a new Query whose function is the parent's and then
\* filter(query, ...)
Query_filter(parent, callable) ==
    /\ fp' = [fp EXCEPT
                  !.heap = @ \o _make_q(Len(fp.heap), callable),
                  !.queries =
                      Append(@, (IF parent = 0 THEN <<>>
                                 ELSE fp.queries[parent])
                                    \o <<Len(fp.heap) + 3>>)]
    /\ UNCHANGED <<tq_vars, download_vars, auth_vars, driver_vars, queen>>

\* iterating a Query: the built-in filter()s are lazy, so each item goes
\* through the stages in turn before the next item is taken.  The verdict
\* on one item: the exception of the first stage that raises, else 0 when
\* a stage drops it, else 1.
RECURSIVE through(_, _, _)
through(heap, stages, x) ==
    IF stages = <<>> THEN Returned(1)
    ELSE LET r == __call__(heap, Head(stages), x)
         IN  IF r.raised # None THEN r
             ELSE IF r.value = 0 THEN Returned(0)
             ELSE through(heap, Tail(stages), x)

\* list(query): the items kept, up to the end of the source or to the
\* first exception
RECURSIVE iterate(_, _, _)
iterate(heap, stages, source) ==
    IF source = <<>> THEN Stream(<<>>, None)
    ELSE LET r == through(heap, stages, Head(source))
             rest == iterate(heap, stages, Tail(source))
         IN  IF r.raised # None THEN Stream(<<>>, r.raised)
             ELSE IF r.value = 0 THEN rest
             ELSE Stream(<<Head(source)>> \o rest.items, rest.raised)

\* ------------------------------------------- Query, element by element
\* The stages of a Query over the records of the table: filter(callable),
\* slice(start, stop, step) (stop None: <<>>), sort_by('a') and
\* sort_by('-a'), reverse(), distinct() and distinct(key=callable).
\* QuerySet.limit(n) is the islice of slice(0, n, 1).
Stages ==
    {[op |-> "filter", callable |-> c] : c \in {"a", "double_b"}}
        \cup [op : {"slice"}, start : {0, 1},
              stop : {<<>>, Some(1), Some(2)}, step : {1, 2}]
        \cup [op : {"sort_by"}, field : {"a", "b"}, reverse : BOOLEAN]
        \cup {[op |-> "reverse"]}
        \cup {[op |-> "distinct", key |-> c] : c \in {None, "a"}}

\* the sources: a list, or a generator that yields the items of a list
\* again and again and never ends
IterationSources ==
    {[items |-> items, unbounded |-> u] :
        items \in UNION {[1..n -> table] : n \in 0..MaxItems},
        u \in BOOLEAN} \ {[items |-> <<>>, unbounded |-> TRUE]}

\* next(source) after n elements: is there one, and which
has_next(source, n) == source.unbounded \/ n < Len(source.items)
item(source, n) == source.items[((n - 1) % Len(source.items)) + 1]

Reverse(seq) == [i \in 1..Len(seq) |-> seq[Len(seq) + 1 - i]]

\* the element x goes to the consumer
yield(it, x) ==
    [it EXCEPT !.out = Append(@, x), !.pulled_at = Append(@, it.pulled),
               !.pc = "ready"]

\* StopIteration goes to the consumer
stop_iteration(it) == [it EXCEPT !.pc = "stopped"]

\* l.596-597, Pipeline.__iter__: iter(query) for a consumer that takes
\* the first k elements; nothing is taken from the source yet
Query_iter(stage, source, k) ==
    /\ fp.iteration.pc = "idle"
    /\ fp' = [fp EXCEPT !.iteration =
                  [NoIteration EXCEPT
                       !.pc = "ready", !.stage = stage, !.source = source,
                       !.k = k,
                       !.next = IF stage.op = "slice" THEN stage.start
                                ELSE 0]]
    /\ UNCHANGED <<tq_vars, download_vars, auth_vars, driver_vars, queen>>

\* the consumer asks for one more element
__next__ ==
    /\ fp.iteration.pc = "ready"
    /\ Len(fp.iteration.out) < fp.iteration.k
    /\ fp' = [fp EXCEPT !.iteration.pc = "running"]
    /\ UNCHANGED <<tq_vars, download_vars, auth_vars, driver_vars, queen>>

\* filter() that takes the element after the one it gives as well
filter_next_lookahead ==
    /\ fp.iteration.pc = "running"
    /\ fp.iteration.stage.op = "filter"
    /\ LET it == fp.iteration
       IN  IF ~has_next(it.source, it.pulled)
           THEN fp' = [fp EXCEPT !.iteration =
                          stop_iteration([it EXCEPT !.exhausted = TRUE])]
           ELSE /\ it.pulled < MaxPulls
                /\ LET x == item(it.source, it.pulled + 1)
                       taken == [it EXCEPT !.pulled = @ + 1]
                   IN  fp' = [fp EXCEPT !.iteration =
                                 IF apply(it.stage.callable, x).value # 0
                                 THEN [yield(taken, x) EXCEPT
                                           !.pulled =
                                               IF has_next(it.source, @)
                                               THEN @ + 1 ELSE @]
                                 ELSE taken]
    /\ UNCHANGED <<tq_vars, download_vars, auth_vars, driver_vars, queen>>

\* l.717-726, Query.filter: one step of the built-in filter(query, ...).
\* It takes one element from the source and gives it to the consumer if
\* the predicate holds of it, else it goes on.
filter_next ==
    /\ fp.iteration.pc = "running"
    /\ fp.iteration.stage.op = "filter"
    /\ LET it == fp.iteration
       IN  IF ~has_next(it.source, it.pulled)
           THEN fp' = [fp EXCEPT !.iteration =
                          stop_iteration([it EXCEPT !.exhausted = TRUE])]
           ELSE /\ it.pulled < MaxPulls
                /\ LET x == item(it.source, it.pulled + 1)
                       taken == [it EXCEPT !.pulled = @ + 1]
                   IN  fp' = [fp EXCEPT !.iteration =
                                 IF apply(it.stage.callable, x).value # 0
                                 THEN yield(taken, x)
                                 ELSE taken]
    /\ UNCHANGED <<tq_vars, download_vars, auth_vars, driver_vars, queen>>

\* l.862-879, Query.slice: one step of itertools.islice.  Elements before
\* 'next' are taken and dropped; at 'stop' it ends without taking one;
\* else the element taken is given and 'next' moves on by 'step', to
\* 'stop' at most.
islice_next ==
    /\ fp.iteration.pc = "running"
    /\ fp.iteration.stage.op = "slice"
    /\ LET it == fp.iteration
           stop == it.stage.stop
           taken == [it EXCEPT !.pulled = @ + 1]
       IN  IF stop # <<>> /\ it.pulled >= it.next /\ it.pulled >= stop[1]
           THEN fp' = [fp EXCEPT !.iteration = stop_iteration(it)]
           ELSE IF ~has_next(it.source, it.pulled)
           THEN fp' = [fp EXCEPT !.iteration =
                          stop_iteration([it EXCEPT !.exhausted = TRUE])]
           ELSE /\ it.pulled < MaxPulls
                /\ fp' = [fp EXCEPT !.iteration =
                              IF it.pulled < it.next
                              THEN taken
                              ELSE [yield(taken, item(it.source,
                                                      it.pulled + 1))
                                        EXCEPT !.next =
                                            IF stop # <<>>
                                               /\ @ + it.stage.step > stop[1]
                                            THEN stop[1]
                                            ELSE @ + it.stage.step]]
    /\ UNCHANGED <<tq_vars, download_vars, auth_vars, driver_vars, queen>>

\* l.751-793 and l.738-749, Query.sort_by('a') / ('-a'): sorted(iterable,
\* key=..., reverse=...) takes every element of the source, then the list
\* it made is given element by element
sorted_next ==
    /\ fp.iteration.pc = "running"
    /\ fp.iteration.stage.op = "sort_by"
    /\ LET it == fp.iteration
       IN  IF ~it.materialized
           THEN IF has_next(it.source, it.pulled)
                THEN /\ it.pulled < MaxPulls
                     /\ fp' = [fp EXCEPT !.iteration =
                                   [it EXCEPT
                                        !.pulled = @ + 1,
                                        !.buffer =
                                            Append(@, item(it.source,
                                                           it.pulled + 1))]]
                ELSE fp' = [fp EXCEPT !.iteration =
                               [it EXCEPT
                                    !.exhausted = TRUE,
                                    !.materialized = TRUE,
                                    !.buffer = sort(@, it.stage.field,
                                                    it.stage.reverse)]]
           ELSE fp' = [fp EXCEPT !.iteration =
                          IF it.buffer = <<>> THEN stop_iteration(it)
                          ELSE [yield(it, Head(it.buffer)) EXCEPT
                                    !.buffer = Tail(@)]]
    /\ UNCHANGED <<tq_vars, download_vars, auth_vars, driver_vars, queen>>

\* reverse() giving each element as it takes it
reversed_next_as_taken ==
    /\ fp.iteration.pc = "running"
    /\ fp.iteration.stage.op = "reverse"
    /\ LET it == fp.iteration
       IN  IF ~has_next(it.source, it.pulled)
           THEN fp' = [fp EXCEPT !.iteration =
                          stop_iteration([it EXCEPT !.exhausted = TRUE])]
           ELSE /\ it.pulled < MaxPulls
                /\ fp' = [fp EXCEPT !.iteration =
                              yield([it EXCEPT !.pulled = @ + 1],
                                    item(it.source, it.pulled + 1))]
    /\ UNCHANGED <<tq_vars, download_vars, auth_vars, driver_vars, queen>>

\* l.795-801, Query.reverse: tuple(iterable) takes every element of the
\* source, reversed() gives them from the last to the first
reversed_next ==
    /\ fp.iteration.pc = "running"
    /\ fp.iteration.stage.op = "reverse"
    /\ LET it == fp.iteration
       IN  IF ~it.materialized
           THEN IF has_next(it.source, it.pulled)
                THEN /\ it.pulled < MaxPulls
                     /\ fp' = [fp EXCEPT !.iteration =
                                   [it EXCEPT
                                        !.pulled = @ + 1,
                                        !.buffer =
                                            Append(@, item(it.source,
                                                           it.pulled + 1))]]
                ELSE fp' = [fp EXCEPT !.iteration =
                               [it EXCEPT !.exhausted = TRUE,
                                          !.materialized = TRUE,
                                          !.buffer = Reverse(@)]]
           ELSE fp' = [fp EXCEPT !.iteration =
                          IF it.buffer = <<>> THEN stop_iteration(it)
                          ELSE [yield(it, Head(it.buffer)) EXCEPT
                                    !.buffer = Tail(@)]]
    /\ UNCHANGED <<tq_vars, download_vars, auth_vars, driver_vars, queen>>

\* l.803-828, Query.distinct: one step of the generator unique().  It
\* takes one element from the source and yields it if its key (itself
\* without a key function) is not in the set yet, else it goes on.
unique ==
    /\ fp.iteration.pc = "running"
    /\ fp.iteration.stage.op = "distinct"
    /\ LET it == fp.iteration
       IN  IF ~has_next(it.source, it.pulled)
           THEN fp' = [fp EXCEPT !.iteration =
                          stop_iteration([it EXCEPT !.exhausted = TRUE])]
           ELSE /\ it.pulled < MaxPulls
                /\ LET x == item(it.source, it.pulled + 1)
                       key == IF it.stage.key = None THEN x
                              ELSE apply(it.stage.key, x).value
                       taken == [it EXCEPT !.pulled = @ + 1]
                   IN  fp' = [fp EXCEPT !.iteration =
                                 IF key \in it.seen
                                 THEN taken
                                 ELSE [yield(taken, x) EXCEPT
                                           !.seen = @ \cup {key}]]
    /\ UNCHANGED <<tq_vars, download_vars, auth_vars, driver_vars, queen>>

\* -------------------------------------------------------- specifications
\* The queue, its workers and the callers of spawn_workers, halt_workers
\* and enqueue.
Next ==
    \/ \E number \in 0..MaxWorkers : spawn_workers(number)
    \/ halt_workers_begin
    \/ halt_workers_join
    \/ halt_workers_end
    \/ enqueue
    \/ \E w \in WorkerIds : _worker(w)

Spec == Init /\ [][Next]_vars

\* Threads are scheduled by the operating system: a worker thread that can
\* take a step does so, and so does the thread inside halt_workers.  Calls
\* of the API (spawn_workers, halt_workers, enqueue) are up to the caller.
FairSpec ==
    /\ Spec
    /\ \A w \in WorkerIds : WF_vars(_worker(w))
    /\ WF_vars(halt_workers_join)
    /\ WF_vars(halt_workers_end)

\* The same with threads calling TaskResult.get.
GetNext ==
    \/ \E number \in 0..MaxGetWorkers : spawn_workers(number)
    \/ halt_workers_begin
    \/ halt_workers_join
    \/ halt_workers_end
    \/ (ntasks < MaxGetTasks /\ enqueue)
    \/ \E w \in WorkerIds : _worker(w)
    \/ \E g \in 1..MaxGetThreads : get(g)

GetSpec == Init /\ [][GetNext]_vars

\* A timed wait's time runs out, and a thread that left wait() goes on.
FairGetSpec ==
    /\ GetSpec
    /\ \A w \in WorkerIds : WF_vars(_worker(w))
    /\ WF_vars(halt_workers_join)
    /\ WF_vars(halt_workers_end)
    /\ \A g \in WaiterIds : WF_vars(get_wait_expire(g))
    /\ \A g \in WaiterIds : WF_vars(get_wake(g))

\* Several threads in get() at once.
WaitersNext ==
    \/ \E number \in 0..MaxGetWorkers : spawn_workers(number)
    \/ halt_workers_begin
    \/ halt_workers_join
    \/ halt_workers_end
    \/ (ntasks < MaxGetTasks /\ enqueue)
    \/ \E w \in WorkerIds : _worker(w)
    \/ \E g \in WaiterIds : get(g)

WaitersSpec == Init /\ [][WaitersNext]_vars

FairWaitersSpec ==
    /\ WaitersSpec
    /\ \A w \in WorkerIds : WF_vars(_worker(w))
    /\ WF_vars(halt_workers_join)
    /\ WF_vars(halt_workers_end)
    /\ \A g \in WaiterIds : WF_vars(get_wait_expire(g))
    /\ \A g \in WaiterIds : WF_vars(get_wake(g))

\* One thread downloading one record, up to MaxDownloads times.  The record
\* and the files already on disk are inputs.  convert_ugoira, check_exists
\* and max_tries are the caller's settings and stay the same from call to
\* call; replace and fake_download vary.
DownloadInit ==
    /\ TaskQueueInit
    /\ illust \in Illusts
    /\ \E old \in SUBSET OldFileCandidates(illust) :
           /\ Cardinality(old) <= MaxOldFiles
           /\ fs = [p \in old |-> <<"full", 0>>]
    /\ DownloadIdle
    /\ AuthIdle
    /\ ExtIdle

DownloadNext ==
    \/ /\ dpc \in {"idle", "returned", "raised"}
       /\ \E cu, rp, fd \in BOOLEAN, ce \in CheckLists, mt \in MaxTriesValues :
              /\ ndownloads > 0
                     => cu = convert_ugoira /\ ce = check_exists
                            /\ mt = max_tries
              /\ download(cu, rp, ce, mt, fd)
    \/ _download_one_url

DownloadSpec == DownloadInit /\ [][DownloadNext]_vars

\* The retry loop alone: nothing on disk before the first call, replace
\* and fake_download off, no check_exists folder.
RetryInit ==
    /\ TaskQueueInit
    /\ illust \in Illusts
    /\ fs = NoFiles
    /\ DownloadIdle
    /\ AuthIdle
    /\ ExtIdle

RetryNext ==
    \/ \E cu \in BOOLEAN, mt \in MaxTriesValues :
           /\ ndownloads > 0 => cu = convert_ugoira /\ mt = max_tries
           /\ download(cu, FALSE, {}, mt, FALSE)
    \/ _download_one_url

RetrySpec == RetryInit /\ [][RetryNext]_vars

\* the thread inside download() keeps running
FairRetrySpec == RetrySpec /\ WF_vars(_download_one_url)

\* Threads calling operations that need a session, while time passes.
AuthSpecInit ==
    /\ TaskQueueInit
    /\ illust = [type |-> ILLUST, image_urls |-> << <<0, ".jpg">> >>]
    /\ fs = NoFiles
    /\ DownloadIdle
    /\ AuthInit
    /\ ExtIdle

AuthNext ==
    \/ \E u \in Usernames, p \in Passwords, accepted \in BOOLEAN :
           login(u, p, accepted)
    \/ \E t \in AuthThreads, op \in Operations : _need_auth(t, op)
    \/ \E t \in AuthThreads : check_auth(t)
    \/ \E t \in AuthThreads : func(t)
    \/ tick

AuthSpec == AuthSpecInit /\ [][AuthNext]_vars

\* A Downloader whose queue has its workers running (spawn_workers was
\* called), threads adding fetch tasks and one thread asking all_done().
\* The TaskResults are those of the Downloader's tasks.
DriverTaskIds == 1..MaxDriverTasks

DriverInit ==
    /\ worker_lock = FALSE
    /\ join_i = 0
    /\ workers = [i \in 1..MaxGetWorkers |-> i]
    /\ halt_flag = FALSE
    /\ queue = <<>>
    /\ unfinished_tasks = 0
    /\ ntasks = 0
    /\ wpc = [w \in WorkerIds |-> IF w <= MaxGetWorkers THEN "loop" ELSE "none"]
    /\ wtask = [w \in WorkerIds |-> 0]
    /\ wout = [w \in WorkerIds |-> <<None, None>>]
    /\ status = [t \in DriverTaskIds |-> PENDING]
    /\ result = [t \in DriverTaskIds |-> None]
    /\ exception = [t \in DriverTaskIds |-> None]
    /\ last_finish = [t \in DriverTaskIds |-> None]
    /\ cv_waiters = [t \in DriverTaskIds |-> <<>>]
    /\ gpc = [g \in WaiterIds |-> "idle"]
    /\ gtask = [g \in WaiterIds |-> 0]
    /\ gtimeout = [g \in WaiterIds |-> FALSE]
    /\ gpropagate = [g \in WaiterIds |-> FALSE]
    /\ gval = [g \in WaiterIds |-> None]
    /\ calls = [t \in DriverTaskIds |-> <<>>]
    /\ generations = 1
    /\ last_call = [op |-> "spawn_workers", raised |-> None]
    /\ illust = [type |-> ILLUST, image_urls |-> << <<0, ".jpg">> >>]
    /\ fs = NoFiles
    /\ DownloadIdle
    /\ AuthIdle
    /\ ExtIdle

\* the sources of the Downloader's tasks: records that differ in their id
DriverSources ==
    {s \in Sources :
        \A i \in 1..Len(s.items) :
            s.items[i].type = ILLUST /\ s.items[i].total_bookmarks = 0}

DriverNext ==
    \/ /\ ~downloader._lock
       /\ Len(downloader._records) < MaxFetchTasks
       /\ \E source \in DriverSources :
              add_fetch_task(source, <<>>, NoSpec, <<>>)
    \/ \E w \in WorkerIds :
           \/ worker_loop(w)
           \/ worker_get(w)
           \/ worker_start(w)
           \/ _fetch(w)
           \/ download_illust(w)
           \/ worker_status(w)
    \/ status_call
    \/ status_read_status
    \/ status_read_exception
    \/ all_done

DriverSpec == DriverInit /\ [][DriverNext]_vars

\* Every worker thread keeps running and every download_illust call
\* returns or raises; a thread that keeps asking for the Downloader's lock
\* gets it at some time when it is free again and again; the caller keeps
\* polling all_done(), and every status() it makes comes to its end.
FairDriverSpec ==
    /\ DriverSpec
    /\ \A w \in 1..MaxGetWorkers :
           /\ WF_vars(worker_loop(w) \/ worker_get(w) \/ worker_start(w)
                          \/ _fetch_call(w) \/ _fetch_next(w)
                          \/ download_illust(w) \/ worker_status(w))
           /\ SF_vars(_fetch_append(w))
    /\ WF_vars(status_call \/ status_read_status \/ status_read_exception
                   \/ all_done)

\* One call of PixieQueen.fetch_and_download.
\* the filter arguments the callers give: none; the most popular
\* illustration of the first records; a limit alone; an exclusion; and a
\* lookup 'type__foo' whose last name is neither an operator nor an
\* attribute
FetchSpecs ==
    {NoSpec,
     [order_by |-> << <<"total_bookmarks", TRUE>> >>,
      limit_before |-> Some(MaxRecords),
      filter_q |-> Some(Q(<<"type">>, ILLUST)),
      exclude_q |-> <<>>, limit_after |-> Some(1)],
     [NoSpec EXCEPT !.limit_after = Some(1)],
     [NoSpec EXCEPT !.exclude_q = Some(Q(<<"total_bookmarks", "lt">>, 1))],
     [NoSpec EXCEPT !.filter_q = Some(Q(<<"type", "foo">>, ILLUST))]}

QueenNext ==
    \/ /\ queen.pc = "idle"
       /\ \E fetch \in [missing_argument : BOOLEAN],
             fetch_max_tries \in {<<>>} \cup {Some(n) : n \in 0..MaxFetchTries},
             spec \in FetchSpecs, info \in NamingInfos :
              fetch_and_download(fetch, fetch_max_tries, spec, info)
    \/ fetch_and_download_try
    \/ fetch_and_download_next

QueenSpec == Init /\ [][QueenNext]_vars

\* The command line runner with one fetch function.
CliNext ==
    \/ /\ queen.pc = "idle" /\ queen.args = <<>>
       /\ \E args \in Args : cli(args)
    \/ cli_fetch_and_download
    \/ fetch_and_download_fetch(Timelines)
    \/ fetch_and_download_next

CliSpec == Init /\ [][CliNext]_vars

\* A caller of fp.Q: the lookups and callables it makes predicates of,
\* then negations and conjunctions of what it has.
Lookups ==
    {<<"a">>, <<"b">>, <<"a", "gte">>, <<"b", "ne">>, <<"a", "foo">>,
     <<"c">>}

PredicateNext ==
    \/ /\ Len(fp.heap) < MaxPredicates
       /\ \/ \E lookup \in Lookups : from_lookup(lookup, 1)
          \/ \E callable \in Callables : Q__init__(callable)
          \/ \E q \in 1..Len(fp.heap) : __invert__(q)
          \/ \E q, other \in 1..Len(fp.heap) : __and__(q, other)
    \/ \E lookup_name \in {"eq", "foobar"} : get_lookup(lookup_name)

PredicateSpec == Init /\ [][PredicateNext]_vars

\* A caller of fp.Query with a list and two predicates f1 and f2: it makes
\* Query(source).filter(f1).filter(f2) and Query(source).filter(f1 & f2).
FilterInit ==
    /\ TaskQueueInit
    /\ illust = [type |-> ILLUST, image_urls |-> << <<0, ".jpg">> >>]
    /\ fs = NoFiles
    /\ DownloadIdle
    /\ AuthIdle
    /\ DriverIdle
    /\ QueenIdle
    /\ \E source \in UNION {[1..n -> table] : n \in 0..MaxItems},
          f1, f2 \in {from_lookup_object(lookup, 1) : lookup \in Lookups}
                         \cup {QObject("func", callable, <<>>, "", 0, 0, 0) :
                                   callable \in Callables} :
           fp = [heap |-> <<f1, f2>>, error |-> <<>>, source |-> source,
                 queries |-> <<>>, iteration |-> NoIteration]

FilterNext ==
    \/ Len(fp.queries) = 0 /\ Query_filter(0, 1)
    \/ Len(fp.queries) = 1 /\ Query_filter(1, 2)
    \/ Len(fp.queries) = 2 /\ Len(fp.heap) = 8 /\ __and__(1, 2)
    \/ Len(fp.queries) = 2 /\ Len(fp.heap) = 9 /\ Query_filter(0, 9)

FilterSpec == FilterInit /\ [][FilterNext]_vars

\* A consumer that iterates a Query of one stage and takes its first k
\* elements.
IterationNext ==
    \/ /\ fp.iteration.pc = "idle"
       /\ \E stage \in Stages, source \in IterationSources, k \in 1..MaxTake :
              Query_iter(stage, source, k)
    \/ __next__
    \/ filter_next
    \/ islice_next
    \/ sorted_next
    \/ reversed_next
    \/ unique

IterationSpec == Init /\ [][IterationNext]_vars

\* ------------------------------------------------------------ properties
Terminal == {SUCCESS, FAILURE}
LiveWorkers == {w \in WorkerIds : wpc[w] \notin {"none", "exited"}}

\* C1: the status of every TaskResult only moves PENDING -> STARTED and
\* STARTED -> SUCCESS or FAILURE; no other change of status ever happens.
C1_StatusTransitions ==
    [][\A t \in TaskIds :
          status'[t] # status[t] =>
              \/ status[t] = PENDING /\ status'[t] = STARTED
              \/ status[t] = STARTED /\ status'[t] \in Terminal]_vars

\* one task succeeded and another failed, after workers were halted and
\* spawned again
C1_Witness ==
    /\ generations >= 2
    /\ \E t, u \in TaskIds : status[t] = SUCCESS /\ status[u] = FAILURE

\* C2: the function of a task is invoked at most once, whatever the workers
\* do; and while workers run and nobody halts them, an enqueued task is
\* invoked (exactly once).
C2_InvokedOnce ==
    /\ [](\A t \in TaskIds : Len(calls[t]) <= 1)
    /\ \A t \in TaskIds :
           (t <= ntasks /\ workers # <<>> /\ ~halt_flag)
               ~> (Len(calls[t]) = 1 \/ halt_flag)

\* two workers, each having invoked its own task
C2_Witness ==
    /\ wpc[1] = "status" /\ wpc[2] = "status"
    /\ wtask[1] # wtask[2]
    /\ \A t \in TaskIds : Len(calls[t]) = 1

\* C3: a get() that returned a value or re-raised the exception of the task
\* did so with the status of its TaskResult SUCCESS or FAILURE.
C3_GetOnlyWhenTerminal ==
    \A g \in WaiterIds :
        gpc[g] \in {"returned", "raised"} => status[gtask[g]] \in Terminal

\* C4: once the task has completed, every thread waiting in get() without a
\* timeout returns, and no get() raises Timeout with the task completed.
C4_AllWaitersNotified ==
    /\ \A g \in WaiterIds :
           (gpc[g] = "waiting" /\ ~gtimeout[g] /\ ready(gtask[g]))
               ~> (gpc[g] \in {"returned", "raised"})
    /\ [][\A g \in WaiterIds :
             (gpc[g] # "Timeout" /\ gpc'[g] = "Timeout")
                 => ~ready(gtask[g])]_vars

\* C5: a task whose function raised ends FAILURE with that exception stored
\* and no result, a task whose function returned ends SUCCESS with that
\* value stored and no exception; get() re-raises the stored exception only
\* with propagate, and returns the stored result otherwise.
C5_OutcomeStored ==
    /\ \A t \in TaskIds :
           status[t] \in Terminal =>
               /\ Len(calls[t]) = 1
               /\ IF calls[t][1][1] = "exc"
                  THEN /\ status[t] = FAILURE
                       /\ exception[t] = calls[t][1][2]
                       /\ result[t] = None
                  ELSE /\ status[t] = SUCCESS
                       /\ result[t] = calls[t][1][2]
                       /\ exception[t] = None
    /\ \A t \in TaskIds :
           (calls[t] # <<>> /\ \A w \in WorkerIds : wtask[w] # t)
               => status[t] \in Terminal
    /\ \A g \in WaiterIds :
           gpc[g] \in {"returned", "raised"} =>
               /\ Len(calls[gtask[g]]) = 1
               /\ IF calls[gtask[g]][1][1] = "exc"
                  THEN IF gpropagate[g]
                       THEN gpc[g] = "raised" /\ gval[g] = calls[gtask[g]][1][2]
                       ELSE gpc[g] = "returned" /\ gval[g] = None
                  ELSE gpc[g] = "returned" /\ gval[g] = calls[gtask[g]][1][2]

\* a failed task whose exception get() re-raised
C5_Witness ==
    \E g \in WaiterIds :
        /\ gpc[g] = "raised"
        /\ status[gtask[g]] = FAILURE
        /\ gval[g] = "e2"

\* C6: a worker thread ends only at its loop test with the halt flag up,
\* never because a task raised; storing a failure touches no other task,
\* no other worker and not the queue; with a failed task around, queued
\* tasks are still invoked while workers run, each with its own outcome.
C6_FailureIsLocal ==
    /\ [][\A w \in WorkerIds :
             (wpc[w] # "exited" /\ wpc'[w] = "exited")
                 => (wpc[w] = "loop" /\ halt_flag)]_vars
    /\ [][\A w \in WorkerIds :
             ((wout[w][1] = "exc" \/ wout'[w][1] = "exc") /\ wpc'[w] # wpc[w])
                 => /\ LiveWorkers' = LiveWorkers
                    /\ queue' = queue
                    /\ \A u \in TaskIds \ {wtask[w]} :
                           /\ status'[u] = status[u]
                           /\ result'[u] = result[u]
                           /\ exception'[u] = exception[u]]_vars
    /\ \A t \in TaskIds :
           ((\E u \in TaskIds : status[u] = FAILURE)
                /\ t <= ntasks /\ workers # <<>> /\ ~halt_flag)
               ~> (Len(calls[t]) = 1 \/ halt_flag)
    /\ [](\A t \in TaskIds :
             status[t] \in Terminal =>
                 status[t] = IF calls[t][1][1] = "exc" THEN FAILURE ELSE SUCCESS)

\* one worker, never halted, ran a task that succeeded after one that failed
C6_Witness ==
    /\ generations = 1
    /\ workers = <<1>>
    /\ ~halt_flag
    /\ status[1] = FAILURE
    /\ status[2] = SUCCESS

\* C7: while no worker has ever been spawned every task stays PENDING, no
\* get() returns or re-raises, and a get() with a timeout raises Timeout.
C7_NeverStartedTimesOut ==
    /\ [](generations = 0 =>
             /\ \A t \in TaskIds : status[t] = PENDING
             /\ \A g \in WaiterIds : gpc[g] \notin {"returned", "raised"})
    /\ \A g \in WaiterIds :
           (generations = 0 /\ gpc[g] = "waiting" /\ gtimeout[g])
               ~> (gpc[g] = "Timeout" \/ generations > 0)

\* a task was enqueued, halt_workers came back, no worker was ever spawned,
\* and get(timeout) raised Timeout
C7_Witness ==
    /\ generations = 0
    /\ ntasks >= 1
    /\ last_call.op = "halt_workers"
    /\ gpc[1] = "Timeout"
    /\ status[gtask[1]] = PENDING

\* C8: when halt_workers returns no worker thread is left and no task is
\* STARTED; a task goes from PENDING to STARTED only while the list of
\* workers is not empty, that is between a spawn_workers and the return
\* of the next halt_workers.
C8_HaltWaitsForWorkers ==
    /\ [][(worker_lock /\ ~worker_lock') =>
             /\ LiveWorkers = {}
             /\ LiveWorkers' = {}
             /\ \A t \in TaskIds : status'[t] # STARTED]_vars
    /\ [][\A t \in TaskIds :
             (status[t] = PENDING /\ status'[t] = STARTED)
                 => workers # <<>>]_vars

\* halt_workers came back: a task has run to its end, another is still queued
C8_Witness ==
    /\ last_call.op = "halt_workers"
    /\ ~worker_lock
    /\ workers = <<>>
    /\ \E t \in TaskIds : status[t] \in Terminal
    /\ \E t \in Range(queue) : status[t] = PENDING

\* C9: spawn_workers(n) with no worker running starts exactly n workers
\* with the halt flag down; with workers running it raises RuntimeError and
\* leaves the workers and the halt flag as they were.
C9_SpawnWorkers ==
    [][\A n \in 0..MaxWorkers :
          spawn_workers(n) =>
              IF LiveWorkers = {}
              THEN /\ Len(workers') = n
                   /\ Cardinality(LiveWorkers') = n
                   /\ \A w \in LiveWorkers' : wpc'[w] = "loop"
                   /\ ~halt_flag'
                   /\ last_call'.raised = None
              ELSE /\ last_call'.raised = "RuntimeError"
                   /\ UNCHANGED <<workers, halt_flag, worker_vars>>]_vars

\* workers spawned after a halt are working on a task while another
\* spawn_workers call has just failed
C9_Witness ==
    /\ generations >= 2
    /\ last_call = [op |-> "spawn_workers", raised |-> "RuntimeError"]
    /\ \E w \in WorkerIds : wpc[w] = "status"

\* C10: halt_workers always comes back, without an exception, with no
\* workers left and the flag up; it never touches the queue or a
\* TaskResult; called with no workers, or again right after a halt_workers,
\* it changes nothing that the first call had not already set.
C10_HaltIdempotent ==
    /\ worker_lock ~> ~worker_lock
    /\ [][halt_workers_end =>
             /\ workers' = <<>>
             /\ LiveWorkers' = {}
             /\ halt_flag'
             /\ last_call' = [op |-> "halt_workers", raised |-> None]
             /\ UNCHANGED <<queue, ntasks, unfinished_tasks, result_vars>>]_vars
    /\ [][(halt_workers_begin \/ halt_workers_join) =>
             UNCHANGED <<workers, queue, ntasks, unfinished_tasks, worker_vars,
                         result_vars>>]_vars
    /\ [][(halt_workers_end /\ (workers = <<>> \/ last_call.op = "halt_workers"))
             => UNCHANGED <<workers, halt_flag, queue, ntasks, unfinished_tasks,
                            worker_vars, result_vars>>]_vars

\* inside a second halt_workers right after a first, a task still queued
C10_Witness ==
    /\ worker_lock
    /\ last_call.op = "halt_workers"
    /\ workers = <<>>
    /\ queue # <<>>

\* C11: tasks leave the queue in enqueue order (task ids number the enqueue
\* calls): a worker never takes a task while an earlier one is still
\* queued.  While only worker 1 has ever been started, a task is STARTED
\* only after every earlier task is SUCCESS or FAILURE.  With two workers
\* a later task can finish first (the witness).
C11_FifoOrder ==
    [][/\ \A w \in WorkerIds :
            (wpc[w] = "get" /\ wpc'[w] = "start")
                => \A a \in 1..(wtask'[w] - 1) : a \notin Range(queue')
       /\ (\A w \in WorkerIds \ {1} : wpc'[w] = "none")
            => \A a, b \in TaskIds :
                   (a < b /\ status'[b] # PENDING) => status'[a] \in Terminal
      ]_vars

C11_Witness ==
    /\ LiveWorkers = {1, 2}
    /\ status[2] \in Terminal
    /\ status[1] = STARTED
    /\ queue = <<>>

\* C12: with max_tries = n >= 1 no page is attempted more than n times;
\* DownloadError is raised exactly after the n-th attempt of the page
\* failed, and it carries the record and the exception of that n-th
\* attempt; a page with an outcome tuple was attempted at most n times
\* (not at all when skipped).
C12_RetryExhaustion ==
    (max_tries # NoLimit /\ max_tries[2] >= 1 /\ dpc # "idle") =>
        LET n == max_tries[2]
        IN  /\ \A i \in DOMAIN attempts : attempts[i] <= n
            /\ dpc = "except" => attempts[target_i] = tries
            /\ dpc = "try" => attempts[target_i] < n
            /\ dpc = "raised" =>
                   /\ attempts[target_i] = n
                   /\ e_caught[2] = n
                   /\ raised = << [illust |-> illust, msg |-> e_caught] >>
            /\ dpc # "raised" => raised = <<>>
            /\ \A i \in DOMAIN download_result :
                   attempts[i] \in (IF download_result[i][3] THEN 1..n ELSE {0})

C12_Witness ==
    /\ dpc = "raised"
    /\ max_tries = <<"int", 2>>
    /\ attempts[target_i] = 2
    /\ raised[1].msg = <<"transfer", 2>>

\* C13 as stated: with max_tries None or 0 DownloadError is never raised.
C13_UnboundedWhenNoneOrZero ==
    (max_tries = NoLimit \/ max_tries = <<"int", 0>>) => dpc # "raised"

\* C13, amended: with max_tries None DownloadError is never raised and a
\* download call whose transport fails any number of times and then works
\* returns, every page it entered the retry loop for being downloaded;
\* with max_tries 0 a page is attempted once and DownloadError follows its
\* first failure.
C13_UnboundedWhenNone ==
    /\ [](max_tries = NoLimit => dpc # "raised")
    /\ (max_tries = NoLimit /\ dpc \in {"one_url", "try", "except"})
           ~> (/\ dpc = "returned"
               /\ \A i \in DOMAIN attempts :
                      attempts[i] > 0 => download_result[i][3])
    /\ []((max_tries = <<"int", 0>> /\ dpc # "idle") =>
              /\ \A i \in DOMAIN attempts : attempts[i] <= 1
              /\ dpc = "except" => attempts[target_i] = 1)
    /\ (max_tries = <<"int", 0>> /\ dpc = "except") ~> dpc = "raised"

C13_Witness ==
    /\ max_tries = NoLimit
    /\ dpc = "returned"
    /\ ndownloads = 1
    /\ fails = MaxFails
    /\ attempts[1] = MaxFails + 1
    /\ download_result[1][3]

\* the page's attempt failed and was cleaned up: the next attempt is about
\* to start, or DownloadError has been raised
AfterFailedAttempt == dpc = "raised" \/ (dpc = "try" /\ tries > 1)

\* C14 as stated: after a failed attempt neither the destination file nor
\* (for an ugoira kept as zip) its frame delay file exists.
C14_NoFileAfterFailure ==
    AfterFailedAttempt =>
        LET path == download_target[target_i][2]
        IN  /\ ~exists(path)
            /\ (illust.type = UGOIRA /\ ~convert_ugoira)
                   => ~exists(frame_path_of(path))

\* C14, amended: after a failed attempt the destination file does not
\* exist and no file holds partly written data; the frame delay file does
\* not exist either, unless it was on disk before the call and no attempt
\* of the call got as far as writing it: then it is as it was.
C14_NoPartialFileAfterFailure ==
    AfterFailedAttempt =>
        LET path == download_target[target_i][2]
            frames == frame_path_of(path)
        IN  /\ ~exists(path)
            /\ \A p \in DOMAIN fs : fs[p][1] # "partial"
            /\ \/ ~exists(frames)
               \/ /\ frame_path = NoPath
                  /\ exists(frames)
                  /\ frames \in DOMAIN fs_before
                  /\ fs[frames] = fs_before[frames]

C14_Witness ==
    /\ dpc = "try"
    /\ tries > 1
    /\ e_caught[1] = "sidecar"
    /\ frame_path = frame_path_of(download_target[target_i][2])
    /\ ~exists(frame_path)
    /\ ~exists(download_target[target_i][2])

\* C15: when download reaches a page and fake_download is off, the page
\* gets the outcome "not downloaded" without a transport call exactly if
\* (replace is off and its path exists) or its base name exists in a
\* check_exists folder; otherwise the retry loop is entered and its first
\* step calls the transport.  So a page with an outcome was never
\* transferred if skipped, and at least once if not.
C15_SkipExactlyWhenPresent ==
    [][/\ (/\ dpc = "one_url" /\ ~fake_download
           /\ <<dpc, download_result>>' # <<dpc, download_result>>)
          => LET path == download_target[target_i][2]
                 present ==
                     \/ ~replace /\ path \in DOMAIN fs
                     \/ \E folder \in check_exists :
                            <<folder, path[2], path[3]>> \in DOMAIN fs
             IN  /\ present <=>
                        /\ Len(download_result') = Len(download_result) + 1
                        /\ ~download_result'[target_i][3]
                        /\ attempts'[target_i] = 0
                 /\ ~present <=> dpc' = "try"
       /\ (dpc = "try" /\ dpc' # "try")
            => attempts'[target_i] = attempts[target_i] + 1
       /\ \A i \in DOMAIN download_result' :
              download_result'[i][3] <=> attempts'[i] > 0
      ]_vars

C15_Witness ==
    /\ dpc = "returned"
    /\ replace /\ ~fake_download
    /\ check_exists = {"have"}
    /\ Len(download_result) = 2
    /\ ~download_result[1][3] /\ attempts[1] = 0
    /\ download_result[2][3] /\ attempts[2] > 0
    /\ ~exists(download_target[1][2])

\* C16: a download call that follows a call which returned (no
\* DownloadError, fake_download off), with the same convert_ugoira and
\* check_exists and with replace off, never enters the retry loop: no
\* transport call, the disk stays as it was, and it returns one "not
\* downloaded" outcome per page.
C16_DownloadIdempotent ==
    (/\ ndownloads >= 2
     /\ previous[1].dpc = "returned"
     /\ ~previous[1].fake_download
     /\ previous[1].convert_ugoira = convert_ugoira
     /\ previous[1].check_exists = check_exists
     /\ ~replace)
    => /\ dpc \in {"one_url", "returned"}
       /\ \A i \in DOMAIN attempts : attempts[i] = 0
       /\ fs = fs_before
       /\ dpc = "returned" =>
              /\ Len(download_result) = Len(illust.image_urls)
              /\ \A i \in DOMAIN download_result :
                     /\ ~download_result[i][3]
                     /\ download_result[i][1] = illust.image_urls[i]
                     /\ download_result[i][2] = previous[1].download_result[i][2]

C16_Witness ==
    /\ ndownloads = 2
    /\ dpc = "returned"
    /\ illust.type = UGOIRA /\ convert_ugoira
    /\ ~replace /\ ~fake_download
    /\ previous[1].dpc = "returned"
    /\ previous[1].download_result = << <<<<0, ".zip">>, <<directory, 0, ".gif">>, TRUE>> >>
    /\ download_result = << <<<<0, ".zip">>, <<directory, 0, ".gif">>, FALSE>> >>

\* what a finished download call hands to its caller: the list of l.599
\* when it returned; nothing when DownloadError left
\* _download_multiple_urls, whose list is then dropped
download_returns == IF dpc = "returned" THEN download_result ELSE <<>>

\* C17: a finished download call (max_tries not 0) on a record of n pages
\* yields n outcome tuples, one per page in page order, also when a page
\* exhausted its retries.
C17_OneOutcomePerPage ==
    (dpc \in {"returned", "raised"} /\ max_tries # <<"int", 0>>) =>
        /\ Len(download_returns) = Len(illust.image_urls)
        /\ \A i \in DOMAIN download_returns :
               /\ download_returns[i][1] = illust.image_urls[i]
               /\ download_returns[i][2] = download_target[i][2]

\* C18: when a download call (max_tries not 0) has finished, with
\* DownloadError on page k or without, every page of the record has been reached (skipped or
\* attempted), and the file of every page downloaded before k is on disk.
C18_PagesIndependent ==
    (dpc \in {"returned", "raised"} /\ max_tries # <<"int", 0>>) =>
        /\ \A i \in 1..Len(illust.image_urls) :
               \/ i <= Len(download_result)
               \/ attempts[i] > 0
        /\ \A i \in DOMAIN download_result :
               download_result[i][3]
                   => /\ exists(download_result[i][2])
                      /\ fs[download_result[i][2]] = <<"full", ndownloads>>

\* C19: an operation's network call is made only after check_auth let the
\* call through.  check_auth lets it through only with a session that is
\* not expired at that moment: without a session it raises NoAuth; with an
\* expired token and auto_re_login it first logs in again with the stored
\* credentials, and goes on only if that login worked; with an expired
\* token and no auto_re_login, or a failed re-login, the call ends with
\* NoAuth / LoginFailed and the operation's network call is never made.
C19_AuthBeforeNetwork ==
    [][\A t \in AuthThreads :
          /\ (apc[t] = "check" /\ apc'[t] # "check") =>
                 apc'[t] = (IF ~has_auth THEN "NoAuth"
                            ELSE IF ~token_expired THEN "func"
                            ELSE IF auto_re_login THEN "login"
                            ELSE "NoAuth")
          /\ (apc[t] = "login" /\ apc'[t] # "login") =>
                 \/ apc'[t] = "LoginFailed" /\ last_login' = last_login
                 \/ /\ apc'[t] = "func"
                    /\ last_login' = <<now>>
                    /\ username # "" /\ password # ""
          /\ (apc'[t] = "func" /\ apc[t] # "func") =>
                 /\ has_auth'
                 /\ now' - last_login'[1] < TOKEN_LIFETIME
          /\ (net_called'[t] /\ ~net_called[t]) => apc[t] = "func"
          /\ apc'[t] \in {"lock", "check", "login", "NoAuth", "LoginFailed"}
                 => ~net_called'[t]
      ]_vars

C19_Witness ==
    \E t \in AuthThreads :
        /\ apc[t] = "done"
        /\ aop[t] = "download"
        /\ net_called[t]
        /\ seen_login[t] = <<0>>
        /\ relogins = <<0>>
        /\ last_login = <<TOKEN_LIFETIME>>

\* C20: no token is renewed twice: the re-logins that succeeded each
\* replaced a different expired last_login.  A thread logs in again only
\* if the token is expired when it holds the lock, and a thread that finds
\* the session renewed goes on without a login.  Two threads are never
\* inside check_auth's with block together.
C20_OneReLogin ==
    [][/\ \A i, j \in DOMAIN relogins' : i # j => relogins'[i] # relogins'[j]
       /\ \A t, u \in AuthThreads :
              (t # u /\ apc'[t] \in {"check", "login"})
                  => apc'[u] \notin {"check", "login"}
       /\ \A t \in AuthThreads :
              /\ (apc[t] = "check" /\ apc'[t] = "login") => token_expired
              /\ (apc[t] = "check" /\ apc'[t] # "check" /\ has_auth
                      /\ ~token_expired)
                     => apc'[t] = "func" /\ relogins' = relogins
      ]_vars

C20_Witness ==
    /\ relogins = <<0>>
    /\ \A t \in AuthThreads : apc[t] = "func"
    /\ seen_login[1] = <<0>>
    /\ seen_login[2] = last_login
    /\ last_login = <<now>>

\* C21: no component lock is held by a thread while that thread makes a
\* blocking network call, a blocking disk call or a blocking wait on another
\* thread.  Here for the auth-check lock: a thread at "login" is inside
\* PixivPixie.login (pixie.py l.143, l.110), waiting for the server's answer.
\* (The worker lock is likewise held by halt_workers while it joins the
\* worker threads: halt_workers_join needs worker_lock.)
C21_NoLockAcrossBlocking ==
    \A t \in AuthThreads : apc[t] = "login" => check_auth_lock # t

\* ------------------------------------------------------------ Downloader
IsPrefix(a, b) == Len(a) <= Len(b) /\ SubSeq(b, 1, Len(a)) = a

\* the TaskResults of the status tree: of the records and of their children
TreeResults(records) ==
    {r.result : r \in Range(records)}
        \cup UNION {{c[2] : c \in Range(r.children)} : r \in Range(records)}

\* the step on which status() / all_done() returns
all_done_returns == observer.pc = "status" /\ observer'.pc = "idle"

\* C22: all_done() returns true iff every top-level task and every child is
\* SUCCESS or FAILURE: when it returns true every TaskResult of the tree is
\* terminal, and when it returns false some TaskResult of the tree was not
\* terminal when its status() took the lock.
C22_AllDoneIffTerminal ==
    [][all_done_returns =>
          /\ observer'.returned = Some(TRUE) =>
                 \A t \in TreeResults(downloader'._records) :
                     status'[t] \in Terminal
          /\ observer'.returned = Some(FALSE) => ~observer.at_acquire]_vars

\* all_done() has returned true for a tree with a fetch task of two
\* children, one downloaded and one failed
C22_Witness ==
    /\ observer.pc = "idle"
    /\ observer.returned = Some(TRUE)
    /\ \E r \in Range(downloader._records) :
           /\ Len(r.children) = 2
           /\ status[r.children[1][2]] = SUCCESS
           /\ status[r.children[2][2]] = FAILURE

\* the names and the children of one status() array are kept, in place,
\* by a later one
ShapePrefix(p, q) ==
    /\ Len(p) <= Len(q)
    /\ \A i \in 1..Len(p) :
           /\ p[i].name = q[i].name
           /\ IsPrefix(p[i].children, q[i].children)

\* C27: the status tree is only read and extended under the Downloader's
\* lock (never while status() holds it), it is append-only: the records and
\* the children of each record keep their place, task and name, each
\* status() array extends the one before, and the children of a fetch task
\* are the records of its QuerySet in enumeration order.
C27_TreeAppendOnly ==
    [][/\ downloader'._records # downloader._records =>
              /\ ~downloader._lock
              /\ Len(downloader._records) <= Len(downloader'._records)
              /\ \A i \in 1..Len(downloader._records) :
                     /\ downloader'._records[i].name =
                            downloader._records[i].name
                     /\ downloader'._records[i].result =
                            downloader._records[i].result
                     /\ IsPrefix(downloader._records[i].children,
                                 downloader'._records[i].children)
       /\ (all_done_returns /\ observer.previous # <<>>) =>
              ShapePrefix(observer.previous[1], observer'.previous[1])
       /\ \A i \in 1..Len(downloader'._records) :
              LET record == downloader'._records[i]
                  call == task_call'[record.result]
                  qs == pipeline(call.source, call.spec)
              IN  /\ call.func = "_fetch" /\ call.record = i
                  /\ Len(record.children) <= Len(qs.items)
                  /\ \A j \in 1..Len(record.children) :
                         /\ record.children[j][1] = qs.items[j]
                         /\ task_call'[record.children[j][2]] =
                                DownloadCall(qs.items[j],
                                             Some("order" :> j))]_vars

\* status() is about to return an array with a second child in it that
\* the array before did not have
C27_Witness ==
    /\ observer.pc = "status"
    /\ observer.i > Len(downloader._records)
    /\ observer.previous # <<>>
    /\ Shape(observer.snapshot) # observer.previous[1]
    /\ Len(observer.previous[1]) = 1
    /\ \E i \in 1..Len(observer.snapshot) :
           Len(observer.snapshot[i].children) = 2

\* ------------------------------------------------------------ PixieQueen
\* C23: the driver enqueues exactly one download task per record of the
\* pipeline's output and no others, in output order, never more than
\* limit_after of them, and the i-th task carries naming order i.  Here for
\* a fetch_and_download that has returned, against the output of the
\* attempt that succeeded, the order being looked at when the caller gave
\* no naming info of its own.
C23_OneTaskPerRecord ==
    queen.pc = "done" =>
        /\ Len(queen.submitted) = Len(queen.output)
        /\ \A i \in 1..Len(queen.submitted) :
               /\ i <= Len(queen.output)
               /\ queen.submitted[i].illust = queen.output[i]
               /\ queen.info = <<>> =>
                      queen.submitted[i].addition_naming_info =
                          Some("order" :> i)
        /\ queen.spec.limit_after # <<>> =>
               Len(queen.submitted) <= queen.spec.limit_after[1]

\* C24: every record submitted gets its 1-based enumeration order in the
\* naming info unless the caller supplied an order: a caller's order is
\* kept, and a caller who gave other naming info without an order still
\* gets the enumerated one.  Looked at during the first attempt, where the
\* k-th submission is the k-th record.
C24_OrderInjected ==
    queen.tries = 1 =>
        \A k \in 1..Len(queen.submitted) :
            LET given == queen.submitted[k].addition_naming_info
                caller == queen.info
            IN  /\ given # <<>>
                /\ "order" \in DOMAIN given[1]
                /\ IF caller # <<>> /\ "order" \in DOMAIN caller[1]
                   THEN given[1] = caller[1]
                   ELSE given[1]["order"] = k

\* C25: fetch_and_download retries the whole fetch on any exception: the
\* fetch call is made at most max_tries times; when an attempt succeeds
\* the result is the list of the (record, download handle) pairs of the
\* records that attempt yielded; when every attempt failed the last
\* exception is raised with the fetch call recorded on it; with max_tries
\* None no exception is raised.  A max_tries of 1 or more, or None.
C25_RetryWholeFetch ==
    queen.max_tries # Some(0) =>
        /\ queen.max_tries # <<>> => queen.tries <= queen.max_tries[1]
        /\ queen.max_tries = <<>> => queen.pc # "raised"
        /\ queen.pc = "raised" =>
               /\ queen.tries = queen.max_tries[1]
               /\ queen.exception # <<>>
               /\ queen.fetch_call = Some(queen.fetch)
        /\ queen.pc = "done" =>
               /\ Len(queen.futures) = Len(queen.output)
               /\ \A i \in 1..Len(queen.futures) :
                      /\ i <= Len(queen.output)
                      /\ queen.futures[i][1] = queen.output[i]
                      /\ queen.submitted[queen.futures[i][2]].illust =
                             queen.output[i]

\* the exceptions of a call that is wrong whatever the service answers:
\* a missing argument of the fetch function, a lookup or sort field that
\* names nothing
ConfigurationErrors == {"TypeError", "AttributeError"}

\* the fetch attempt is about to raise a configuration error
ConfigurationErrorRaised ==
    \/ queen.pc = "try" /\ queen.fetch.missing_argument
    \/ /\ queen.pc = "iterate"
       /\ queen.qs.items = <<>>
       /\ queen.qs.raised \in ConfigurationErrors

\* C26: a configuration error raised inside a fetch task is never retried,
\* whatever max_tries is: the step that raises it ends the call with that
\* error.
C26_ConfigurationErrorNotRetried ==
    [][ConfigurationErrorRaised =>
           queen'.pc = "raised" /\ queen'.exception # <<>>]_vars

\* ---------------------------------------------------------- fp.Q, Query
\* the names of the fields of the records the predicates are applied to
FieldNames == {"a", "b"}

\* C28: a lookup whose last name is used as a comparator and is not
\* registered makes the construction of the predicate fail: no Q object
\* exists whose lookup ended in a name that is neither a registered
\* comparator nor a field of the records.
C28_UnknownComparatorRejected ==
    \A q \in 1..Len(fp.heap) :
        fp.heap[q].kind = "lookup" /\ Len(fp.heap[q].fields) > 1 =>
            fp.heap[q].fields[Len(fp.heap[q].fields)] \in FieldNames

\* a call accepts its input: it returns a true value
accepts(r) == r.raised = None /\ r.value # 0

\* C29: ~~p accepts an input exactly when p does (and raises when p
\* raises), and building a predicate from p leaves p as it was: every Q
\* object answers every input after the step as before it.
C29_DoubleNegation ==
    [][/\ \A q \in 1..Len(fp.heap), x \in table :
              /\ q <= Len(fp'.heap)
              /\ __call__(fp'.heap, q, x) = __call__(fp.heap, q, x)
       /\ \A n \in 1..Len(fp'.heap) :
              (fp'.heap[n].kind = "not"
                   /\ fp'.heap[fp'.heap[n].lhs].kind = "not") =>
                  \A x \in table :
                      LET p == fp'.heap[fp'.heap[n].lhs].lhs
                      IN  /\ accepts(__call__(fp'.heap, n, x))
                              = accepts(__call__(fp'.heap, p, x))
                          /\ __call__(fp'.heap, n, x).raised
                              = __call__(fp'.heap, p, x).raised]_vars

\* p = Q(lambda x: 2 * x['b']), ~p and ~~p have been built; p accepts one
\* record of the table with a value that is no bool and rejects another
C29_Witness ==
    /\ Len(fp.heap) = 3
    /\ fp.heap[1].kind = "func" /\ fp.heap[1].func = "double_b"
    /\ fp.heap[2].kind = "not" /\ fp.heap[2].lhs = 1
    /\ fp.heap[3].kind = "not" /\ fp.heap[3].lhs = 2
    /\ \E x, y \in table :
           /\ __call__(fp.heap, 1, x).value = 2
           /\ __call__(fp.heap, 3, x).value = 1
           /\ ~accepts(__call__(fp.heap, 3, y))

\* C30: over a finite input, P.filter(f1).filter(f2) and
\* P.filter(f1 & f2) give the same output: the same items in the same
\* order and number, and the same exception after them if one is raised.
C30_FilterTwiceIsFilterAnd ==
    Len(fp.queries) = 3 =>
        iterate(fp.heap, fp.queries[2], fp.source)
            = iterate(fp.heap, fp.queries[3], fp.source)

\* the three Queries exist; f1 keeps both items of the source, f2 keeps
\* the second only, and the output is that item
C30_Witness ==
    /\ Len(fp.queries) = 3
    /\ Len(fp.source) = 2
    /\ Len(iterate(fp.heap, fp.queries[1], fp.source).items) = 2
    /\ iterate(fp.heap, fp.queries[3], fp.source)
           = Stream(<<fp.source[2]>>, None)

\* C34: a transfer that returns fewer bytes than the response declared is
\* a failed attempt.  It is caught with the disk as it was, the handler
\* retries it or raises DownloadError by the same test on tries as for any
\* other exception, and no file ever holds the truncated content.
C34_TruncatedTransferFails ==
    /\ [](\A p \in DOMAIN fs : fs[p][1] # "truncated")
    /\ [][
          /\ (dpc = "try" /\ dpc' = "except" /\ e_caught'[1] = "truncated")
                 => (fs' = fs /\ e_caught' = <<"truncated", tries>>)
          /\ (dpc = "except" /\ e_caught[1] = "truncated")
                 => IF max_tries = NoLimit \/ tries < max_tries[2]
                    THEN dpc' = "try" /\ tries' = tries + 1
                    ELSE /\ dpc' = "raised"
                         /\ raised' = << [illust |-> illust,
                                          msg |-> e_caught] >>
       ]_vars

C34_Witness ==
    /\ e_caught = <<"truncated", 1>>
    /\ \E i \in DOMAIN attempts :
           /\ attempts[i] = 2
           /\ i \in DOMAIN download_result
           /\ download_result[i][3]
           /\ fs[download_target[i][2]] = <<"full", ndownloads>>

\* C40: when a page download has raised DownloadError, a file that was at
\* the destination of that page before the call is still there and holds
\* what it held.
C40_OldFileSurvivesDownloadError ==
    dpc = "raised" =>
        LET path == download_target[target_i][2]
        IN  path \in DOMAIN fs_before
                => exists(path) /\ fs[path] = fs_before[path]

\* C35: for every TaskResult that exists, ready() is true exactly when its
\* status is SUCCESS or FAILURE, successful() exactly when it is SUCCESS
\* and failed() exactly when it is FAILURE.
C35_ObserversAgreeWithStatus ==
    \A t \in 1..ntasks :
        /\ ready(t) <=> status[t] \in Terminal
        /\ successful(t) <=> status[t] = SUCCESS
        /\ failed(t) <=> status[t] = FAILURE

\* C37: when fetch_and_download returns after a failed attempt, its result
\* is one pair per record the successful attempt yielded, in order, each
\* with a handle of its own, and each of those records was submitted for
\* download as often as that attempt yielded it and no more.
C37_FailedAttemptLeavesNothing ==
    (queen.pc = "done" /\ queen.tries > 1) =>
        /\ Len(queen.futures) = Len(queen.output)
        /\ \A i \in 1..Len(queen.futures) :
               /\ i <= Len(queen.output)
               /\ queen.futures[i][1] = queen.output[i]
               /\ \A j \in 1..Len(queen.futures) :
                      queen.futures[i][2] = queen.futures[j][2] => i = j
        /\ \A i \in 1..Len(queen.output) :
               Cardinality({k \in 1..Len(queen.submitted) :
                                queen.submitted[k].illust = queen.output[i]})
                   = Cardinality({j \in 1..Len(queen.output) :
                                      queen.output[j] = queen.output[i]})

\* C36: no illust the command line runner submits for download carries a
\* tag of the blacklist (--exclude-tag, and R-18, R-18G with --no-r18) or
\* belongs to a user of --exclude-user-id, whatever other filters are set.
C36_BlacklistExcluded ==
    queen.args # <<>> =>
        \A k \in 1..Len(queen.submitted) :
            LET il == queen.submitted[k].illust
                tags == tag_black_list(queen.args[1])
                users == user_black_list(queen.args[1])
            IN  /\ \A i \in 1..Len(tags) : tags[i] \notin il.tags
                /\ \A i \in 1..Len(users) : users[i][2] # il.user_id[2]

\* all_done() has returned true for a tree that was not empty, and no
\* fetch task was added since
all_done_holds ==
    /\ observer.returned = Some(TRUE)
    /\ observer.previous # <<>>
    /\ observer.previous[1] # <<>>
    /\ Len(downloader._records) = Len(observer.previous[1])

\* C38: once all_done() has returned true for a non-empty task list, and
\* until add_fetch_task is called again, every task of the queue is
\* SUCCESS or FAILURE (none waits to be enqueued, is pending or runs), no
\* _fetch is under way, the children of every fetch task are those the
\* call saw, and every later all_done() returns true.
C38_AllDoneStable ==
    /\ [](all_done_holds =>
              /\ \A t \in 1..ntasks : status[t] \in Terminal
              /\ queue = <<>>
              /\ \A w \in WorkerIds : fetch_frame[w].pc = "idle"
              /\ \A i \in 1..Len(downloader._records) :
                     LET children == downloader._records[i].children
                     IN  /\ Len(children) = Len(observer.previous[1][i].children)
                         /\ \A j \in 1..Len(children) :
                                children[j][1].illust_id =
                                    observer.previous[1][i].children[j]
              /\ ntasks = Len(downloader._records)
                     + Cardinality(TreeResults(downloader._records)
                           \ {r.result : r \in Range(downloader._records)}))
    /\ [][(all_done_holds /\ all_done_returns)
              => observer'.returned = Some(TRUE)]_vars

\* a second all_done() is about to return for a fetch task with a child
\* after a first one returned true for it
C38_Witness ==
    /\ all_done_holds
    /\ observer.pc = "status"
    /\ observer.i > Len(downloader._records)
    /\ \E i \in 1..Len(observer.previous[1]) :
           observer.previous[1][i].children # <<>>

DistinctKeys(items, field) ==
    \A i, j \in 1..Len(items) : items[i][field] = items[j][field] => i = j

\* C31: for a finite input without duplicate sort keys, what
\* sort_by('-field') gives is the reverse of what sort_by('field') gives,
\* and QuerySet.order_by does the same.
C31_DescendingIsReverse ==
    LET it == fp.iteration
        items == it.source.items
        field == it.stage.field
    IN  (/\ it.stage.op = "sort_by"
         /\ it.materialized
         /\ DistinctKeys(items, field)) =>
            /\ it.out \o it.buffer =
                   Reverse(sort(items, field, ~it.stage.reverse))
            /\ order_by(Stream(items, None), << <<field, TRUE>> >>).items =
                   Reverse(order_by(Stream(items, None),
                                    << <<field, FALSE>> >>).items)

\* sort_by('-a') has given both items of a list that had them in
\* ascending order of a
C31_Witness ==
    LET it == fp.iteration
    IN  /\ it.stage = [op |-> "sort_by", field |-> "a", reverse |-> TRUE]
        /\ Len(it.source.items) = 2
        /\ it.source.items[1].a < it.source.items[2].a
        /\ it.out = <<it.source.items[2], it.source.items[1]>>

\* the n-th element of the source passes the filter
passes(it, n) == apply(it.stage.callable, item(it.source, n)).value # 0

\* C32: filter and slice (limit is a slice) are lazy.  Each element given
\* is the element of the source taken last: for filter the j-th one that
\* passes, for slice the one at start + (j - 1) * step, below stop.
\* Between two requests of the consumer nothing was taken after the
\* element given last, and during one nothing is taken beyond the element
\* that gives the k-th output: the first k outputs cost finitely many
\* elements of a source that never ends.
C32_LazyStages ==
    LET it == fp.iteration
        n == Len(it.out)
    IN  it.stage.op \in {"filter", "slice"} =>
            /\ Len(it.pulled_at) = n
            /\ n <= it.k
            /\ \A j \in 1..n :
                   /\ it.out[j] = item(it.source, it.pulled_at[j])
                   /\ it.stage.op = "filter" =>
                          /\ passes(it, it.pulled_at[j])
                          /\ Cardinality({m \in 1..it.pulled_at[j] :
                                              passes(it, m)}) = j
                   /\ it.stage.op = "slice" =>
                          /\ it.pulled_at[j] =
                                 it.stage.start + (j - 1) * it.stage.step + 1
                          /\ it.stage.stop # <<>> =>
                                 it.pulled_at[j] <= it.stage.stop[1]
            /\ it.pc = "ready" =>
                   it.pulled = (IF n = 0 THEN 0 ELSE it.pulled_at[n])
            /\ it.stage.op = "filter" =>
                   Cardinality({m \in 1..(it.pulled - 1) : passes(it, m)})
                       < it.k
            /\ it.stage.op = "slice" =>
                   it.pulled <= it.stage.start + (it.k - 1) * it.stage.step + 1

\* the consumer has its two elements of a filter over a source that never
\* ends, of which every second element passes
C32_Witness ==
    LET it == fp.iteration
    IN  /\ it.stage.op = "filter"
        /\ it.source.unbounded
        /\ it.k = 2
        /\ Len(it.out) = 2
        /\ it.pulled = 4
        /\ it.pc = "ready"

\* C33 as stated: sort_by, reverse and distinct give their first element
\* only after the source has ended.
C33_MaterializeBeforeOutput ==
    LET it == fp.iteration
    IN  (it.stage.op \in {"sort_by", "reverse", "distinct"}
             /\ it.out # <<>>) =>
            /\ it.exhausted
            /\ it.pulled_at[1] = Len(it.source.items)

\* C33, amended: sort_by and reverse give their first element only after
\* the source has ended, every element of it taken; distinct gives each
\* element as soon as it has taken it from the source, if none with its
\* key came before.
C33_SortAndReverseMaterialize ==
    LET it == fp.iteration
        key(n) == IF it.stage.key = None THEN item(it.source, n)
                  ELSE apply(it.stage.key, item(it.source, n)).value
    IN  /\ (it.stage.op \in {"sort_by", "reverse"} /\ it.out # <<>>) =>
               /\ it.exhausted
               /\ ~it.source.unbounded
               /\ \A j \in 1..Len(it.out) :
                      it.pulled_at[j] = Len(it.source.items)
        /\ it.stage.op = "distinct" =>
               /\ \A j \in 1..Len(it.out) :
                      /\ it.out[j] = item(it.source, it.pulled_at[j])
                      /\ \A m \in 1..(it.pulled_at[j] - 1) :
                             key(m) # key(it.pulled_at[j])
               /\ (it.pc = "ready" /\ it.out # <<>>) =>
                      it.pulled = it.pulled_at[Len(it.out)]

\* reverse() has given the first element of its output, the last of a
\* list of two
C33_Witness ==
    LET it == fp.iteration
    IN  /\ it.stage.op = "reverse"
        /\ Len(it.source.items) = 2
        /\ it.out = <<it.source.items[2]>>
        /\ it.pc = "ready"

====
